---- MODULE Spec2Model ----
(***************************************************************************)
(* A model of the authentication support code of keep94/toolbox:           *)
(*   lockout/lockout.go        the consecutive-failure lockout counter     *)
(*   session_util/session.go   the user id session and its XSRF tokens     *)
(* Each Go method is one action (or, in the goroutine model of the         *)
(* lockout, one action per statement executed under or around the mutex).  *)
(***************************************************************************)
EXTENDS Integers, Sequences, FiniteSets, TLC

(***************************************************************************)
(* Bounds of the model.                                                    *)
(***************************************************************************)
\* New(failures) is explored for every threshold 1..MaxFailures.
MaxFailures == 3
\* A count is driven at most this far past the threshold.
MaxPastLock == 2
\* Calls the goroutines make, all together, in the goroutine model of the lockout.
MaxCalls == 4
\* Accounts (userName arguments) of the lockout.
Users == {"alice", "charlie"}
\* Goroutines calling one Lockout concurrently.
Goroutines == {"g1", "g2", "g3"}

VARIABLES
  l,          \* the *Lockout receiver: NilLockout or [isNil, failures, counts]
  panicked,   \* TRUE once a call has dereferenced a nil *Lockout
  lastCall,   \* the last completed Lockout call: [op, userName, ret]
  run,        \* per account: Failure calls since the last Success call (or New)
  notices,    \* per account: how many Failure calls returned true
  forgiven,   \* per account: a Success call has cleared a nonzero count
  mutex,      \* l.lock: the goroutine holding it, or NoHolder
  pc,         \* per goroutine: the statement it executes next
  call,       \* per goroutine: the call in progress or last made, [op, userName]
  tmp,        \* per goroutine: the count read by counts[userName]++
  ret,        \* per goroutine: the value its last call returned
  calls,      \* calls made so far by all goroutines
  abs,        \* the counts of a Lockout that ran the calls in mutex order
  absRet,     \* per goroutine: what its call returns in that sequential run
  hist,       \* per account: [failures, trues, success] of the returned calls
  values,     \* s.S.Values: the session's map from key to value
  randoms,    \* how many values kdf.Random has produced
  sPanic,     \* the message of the panic that ended the run, or NoPanic
  issued,     \* the token the client holds, if NewXsrfToken returned it since
              \* the identity last changed: {[token, action, expire, userId]} or {}
  stale,      \* the token the client holds, if the identity changed since
  sCall,      \* the last UserIdSession call, its arguments and its result
  context,    \* gorilla context's data of the request: key -> value
  us,         \* what the last NewUserSession returned: [session, err]
  rCall,      \* the last call made for the request, its inputs and its result
  made,       \* how many UserSession objects the factory has made
  rPanic,     \* the panic that ended the request's run, or NoPanic
  oracle,     \* the inputs HMAC-SHA256 was computed for, in order: <<key, msg>>
  macs,       \* the hashes NewHMAC has returned: {[plain, reps, mac, call]},
              \* call being the number of the call that returned it
  kCall,      \* the last kdf call, its arguments and its result
  keys,       \* the keys KDF has returned: {[kdf, plain, salt, reps, key]}
  db,         \* the Db's channels: [requestCh, responseClosed, doneClosed]
  conn,       \* the connWrapper: [tx, closed], tx being the calls made on it
              \* since the last begin, each [call, err], closed how often
              \* Close was called
  loop,       \* the goroutine of Db.loop: [pc, action, err]
  doers,      \* per caller of Do and Close: its call in progress or last made
  dbCalls,    \* calls of Do and Close made so far
  closeReturned  \* TRUE once a call of Close has returned

seqVars == <<panicked, lastCall, run, notices, forgiven>>

concVars == <<mutex, pc, call, tmp, ret, calls, abs, absRet, hist>>

sessionVars == <<values, randoms, sPanic, issued, stale, sCall>>

requestVars == <<context, us, rCall, made, rPanic>>

kdfVars == <<oracle, macs, kCall, keys>>

dbVars == <<db, conn, loop, doers, dbCalls, closeReturned>>

vars == <<l, seqVars, concVars, sessionVars, requestVars, kdfVars, dbVars>>

(***************************************************************************)
(* lockout.go: type Lockout, New                                           *)
(***************************************************************************)
\* A nil *Lockout: it has no fields.
NilLockout == [isNil |-> TRUE]

\* make(map[string]int)
EmptyCounts == [u \in {} |-> 0]

\* New(failures): panics if failures < 1, so only failures >= 1 yields a value.
New(failures) ==
  [isNil |-> FALSE, failures |-> failures, counts |-> EmptyCounts]

\* Reading a Go map: the zero value for an absent key.
Get(counts, userName) ==
  IF userName \in DOMAIN counts THEN counts[userName] ELSE 0

\* delete(counts, userName)
Delete(counts, userName) ==
  [u \in (DOMAIN counts) \ {userName} |-> counts[u]]

\* counts[userName]++
Incr(counts, userName) ==
  [u \in (DOMAIN counts) \cup {userName} |->
     IF u = userName THEN Get(counts, userName) + 1 ELSE counts[u]]

NoCall == [op |-> "none", userName |-> "", ret |-> FALSE]

Bump(f, userName) == [f EXCEPT ![userName] = @ + 1]

(***************************************************************************)
(* Lockout.Locked, Success, Failure: the bodies run under the mutex.        *)
(***************************************************************************)
LockedRet(lk, userName) == Get(lk.counts, userName) >= lk.failures

\* Success without the "once locked, it stays locked" early return.
SuccessCountsAlwaysClears(lk, userName) == Delete(lk.counts, userName)

\* Success that forgives one failure instead of all of them.
SuccessCountsForgivesOne(lk, userName) ==
  IF Get(lk.counts, userName) >= lk.failures \/ Get(lk.counts, userName) = 0
    THEN lk.counts
    ELSE [lk.counts EXCEPT ![userName] = @ - 1]

\* The body of Success under the mutex: the counts it leaves.
SuccessCounts(lk, userName) ==
  IF Get(lk.counts, userName) >= lk.failures
    THEN lk.counts
    ELSE Delete(lk.counts, userName)

\* Failure that keeps one count for all accounts.
FailureCountsShared(lk, userName) ==
  [u \in (DOMAIN lk.counts) \cup {userName} |->
     IF u = userName THEN Get(lk.counts, userName) + 1 ELSE lk.counts[u] + 1]

\* The body of Failure under the mutex: the counts it leaves ...
FailureCounts(lk, userName) == Incr(lk.counts, userName)

\* Failure reporting the lock on every call at or past the threshold.
FailureRetAtLeast(lk, userName) ==
  Get(FailureCounts(lk, userName), userName) >= lk.failures

\* ... and the value it returns.
FailureRet(lk, userName) ==
  Get(FailureCounts(lk, userName), userName) = lk.failures

(***************************************************************************)
(* The nil receiver.  Every method starts with "if l == nil { return }";   *)
(* past that check the method locks l.lock, which dereferences l: on a nil *)
(* pointer that is a run-time panic.                                       *)
(***************************************************************************)
\* "if l == nil" of Success, Failure and Locked.
NilCheckSkipped(lk) == FALSE

IsNil(lk) == lk.isNil

\* What the sequential callers' actions leave alone.
SeqFrame == UNCHANGED <<concVars, sessionVars, requestVars, kdfVars, dbVars>>

\* A call that got past the nil check on a nil receiver.
Panic ==
  /\ panicked' = TRUE
  /\ UNCHANGED <<l, lastCall, run, notices, forgiven>>
  /\ SeqFrame

(***************************************************************************)
(* The methods called one at a time (each holds the mutex for its whole    *)
(* body, so a sequential caller sees each call as one step).               *)
(***************************************************************************)
Success(userName) ==
  /\ ~panicked
  /\ IF IsNil(l)
       THEN /\ l' = l
            /\ lastCall' = [op |-> "Success", userName |-> userName, ret |-> FALSE]
            /\ UNCHANGED <<panicked, run, notices, forgiven>>
            /\ SeqFrame
       ELSE IF l.isNil THEN Panic
       ELSE /\ l' = [l EXCEPT !.counts = SuccessCounts(l, userName)]
            /\ lastCall' = [op |-> "Success", userName |-> userName, ret |-> FALSE]
            /\ run' = [run EXCEPT ![userName] = 0]
            /\ forgiven' = [forgiven EXCEPT ![userName] =
                              @ \/ Get(l.counts, userName) # Get(l'.counts, userName)]
            /\ UNCHANGED <<panicked, notices>>
            /\ SeqFrame

Failure(userName) ==
  /\ ~panicked
  /\ IF IsNil(l)
       THEN /\ l' = l
            /\ lastCall' = [op |-> "Failure", userName |-> userName, ret |-> FALSE]
            /\ UNCHANGED <<panicked, run, notices, forgiven>>
            /\ SeqFrame
       ELSE IF l.isNil THEN Panic
       ELSE /\ Get(l.counts, userName) < l.failures + MaxPastLock
            /\ l' = [l EXCEPT !.counts = FailureCounts(l, userName)]
            /\ lastCall' = [op |-> "Failure", userName |-> userName,
                            ret |-> FailureRet(l, userName)]
            /\ notices' = IF FailureRet(l, userName)
                            THEN Bump(notices, userName) ELSE notices
            /\ run' = Bump(run, userName)
            /\ UNCHANGED <<panicked, forgiven>>
            /\ SeqFrame

Locked(userName) ==
  /\ ~panicked
  /\ IF IsNil(l)
       THEN /\ lastCall' = [op |-> "Locked", userName |-> userName, ret |-> FALSE]
            /\ UNCHANGED <<l, panicked, run, notices, forgiven>>
            /\ SeqFrame
       ELSE IF l.isNil THEN Panic
       ELSE /\ lastCall' = [op |-> "Locked", userName |-> userName,
                            ret |-> LockedRet(l, userName)]
            /\ UNCHANGED <<l, panicked, run, notices, forgiven>>
            /\ SeqFrame

NoCallsYet ==
  /\ panicked = FALSE
  /\ lastCall = NoCall
  /\ run = [u \in Users |-> 0]
  /\ notices = [u \in Users |-> 0]
  /\ forgiven = [u \in Users |-> FALSE]

LockoutInit ==
  /\ l \in {NilLockout} \cup {New(n) : n \in 1..MaxFailures}
  /\ NoCallsYet

LockoutNext ==
  \E userName \in Users :
    \/ Success(userName)
    \/ Failure(userName)
    \/ Locked(userName)

(***************************************************************************)
(* The same methods called from several goroutines: one action per         *)
(* statement, l.lock taken by Lock and released by the deferred Unlock.    *)
(***************************************************************************)
NoHolder == "none"

\* sync.Mutex.Lock returns only while no goroutine holds the mutex.
CanLockUnguarded(holder) == TRUE

CanLock(holder) == holder = NoHolder

NoArgs == [op |-> "none", userName |-> ""]

NoHist == [failures |-> 0, trues |-> 0, success |-> FALSE]

ConcInit ==
  /\ mutex = NoHolder
  /\ pc = [g \in Goroutines |-> "idle"]
  /\ call = [g \in Goroutines |-> NoArgs]
  /\ tmp = [g \in Goroutines |-> 0]
  /\ ret = [g \in Goroutines |-> FALSE]
  /\ calls = 0
  /\ abs = EmptyCounts
  /\ absRet = [g \in Goroutines |-> FALSE]
  /\ hist = [u \in Users |-> NoHist]

ConcFrame == UNCHANGED <<seqVars, sessionVars, requestVars, kdfVars, dbVars>>

\* The ghost record of a call that has returned.
Returned(g, value) ==
  LET c == call[g]
      h == hist[c.userName] IN
  hist' = [hist EXCEPT ![c.userName] =
             CASE c.op = "Failure" ->
                    [h EXCEPT !.failures = @ + 1,
                              !.trues = IF value THEN @ + 1 ELSE @]
               [] c.op = "Success" -> [h EXCEPT !.success = TRUE]
               [] OTHER -> h]

\* The first body statement of each method, reached once the mutex is held.
FirstStatement(op) ==
  CASE op = "Failure" -> "Failure53read"
    [] op = "Success" -> "Success38"
    [] op = "Locked"  -> "Locked64"

\* A goroutine calls a method; a nil receiver returns at once.
Invoke(g, op, userName) ==
  /\ pc[g] = "idle"
  /\ calls < MaxCalls
  /\ calls' = calls + 1
  /\ call' = [call EXCEPT ![g] = [op |-> op, userName |-> userName]]
  /\ IF IsNil(l)
       THEN /\ pc' = [pc EXCEPT ![g] = "return"]
            /\ ret' = [ret EXCEPT ![g] = FALSE]
       ELSE /\ pc' = [pc EXCEPT ![g] = "lock"]
            /\ UNCHANGED ret
  /\ UNCHANGED <<l, mutex, tmp, abs, absRet, hist>>
  /\ ConcFrame

\* l.lock.Lock().  The sequential run makes the whole call at this point.
Lock(g) ==
  /\ pc[g] = "lock"
  /\ CanLock(mutex)
  /\ mutex' = g
  /\ pc' = [pc EXCEPT ![g] = FirstStatement(call[g].op)]
  /\ LET u == call[g].userName
         a == [l EXCEPT !.counts = abs] IN
       CASE call[g].op = "Failure" ->
              /\ abs' = FailureCounts(a, u)
              /\ absRet' = [absRet EXCEPT ![g] = FailureRet(a, u)]
         [] call[g].op = "Success" ->
              /\ abs' = SuccessCounts(a, u)
              /\ absRet' = [absRet EXCEPT ![g] = FALSE]
         [] call[g].op = "Locked" ->
              /\ abs' = abs
              /\ absRet' = [absRet EXCEPT ![g] = LockedRet(a, u)]
  /\ UNCHANGED <<l, call, tmp, ret, calls, hist>>
  /\ ConcFrame

\* l.counts[userName]++ : the map read ...
FailureRead(g) ==
  /\ pc[g] = "Failure53read"
  /\ tmp' = [tmp EXCEPT ![g] = Get(l.counts, call[g].userName)]
  /\ pc' = [pc EXCEPT ![g] = "Failure53write"]
  /\ UNCHANGED <<l, mutex, call, ret, calls, abs, absRet, hist>>
  /\ ConcFrame

\* ... and the map write.
FailureWrite(g) ==
  /\ pc[g] = "Failure53write"
  /\ l' = [l EXCEPT !.counts =
             [u \in (DOMAIN l.counts) \cup {call[g].userName} |->
                IF u = call[g].userName THEN tmp[g] + 1 ELSE l.counts[u]]]
  /\ tmp' = [tmp EXCEPT ![g] = 0]
  /\ pc' = [pc EXCEPT ![g] = "Failure54"]
  /\ UNCHANGED <<mutex, call, ret, calls, abs, absRet, hist>>
  /\ ConcFrame

\* return l.counts[userName] == l.failures
FailureReturn(g) ==
  /\ pc[g] = "Failure54"
  /\ ret' = [ret EXCEPT ![g] = Get(l.counts, call[g].userName) = l.failures]
  /\ pc' = [pc EXCEPT ![g] = "unlock"]
  /\ UNCHANGED <<l, mutex, call, tmp, calls, abs, absRet, hist>>
  /\ ConcFrame

\* if l.counts[userName] >= l.failures { return }
SuccessCheck(g) ==
  /\ pc[g] = "Success38"
  /\ pc' = [pc EXCEPT ![g] =
              IF Get(l.counts, call[g].userName) >= l.failures
                THEN "unlock" ELSE "Success41"]
  /\ ret' = [ret EXCEPT ![g] = FALSE]
  /\ UNCHANGED <<l, mutex, call, tmp, calls, abs, absRet, hist>>
  /\ ConcFrame

\* delete(l.counts, userName)
SuccessDelete(g) ==
  /\ pc[g] = "Success41"
  /\ l' = [l EXCEPT !.counts = Delete(l.counts, call[g].userName)]
  /\ pc' = [pc EXCEPT ![g] = "unlock"]
  /\ UNCHANGED <<mutex, call, tmp, ret, calls, abs, absRet, hist>>
  /\ ConcFrame

\* return l.counts[userName] >= l.failures
LockedReturn(g) ==
  /\ pc[g] = "Locked64"
  /\ ret' = [ret EXCEPT ![g] = LockedRet(l, call[g].userName)]
  /\ pc' = [pc EXCEPT ![g] = "unlock"]
  /\ UNCHANGED <<l, mutex, call, tmp, calls, abs, absRet, hist>>
  /\ ConcFrame

\* defer l.lock.Unlock()
Unlock(g) ==
  /\ pc[g] = "unlock"
  /\ mutex' = NoHolder
  /\ pc' = [pc EXCEPT ![g] = "return"]
  /\ UNCHANGED <<l, call, tmp, ret, calls, abs, absRet, hist>>
  /\ ConcFrame

\* The call returns ret[g] to its caller; the goroutine's locals die.
Return(g) ==
  /\ pc[g] = "return"
  /\ pc' = [pc EXCEPT ![g] = "idle"]
  /\ Returned(g, ret[g])
  /\ call' = [call EXCEPT ![g] = NoArgs]
  /\ ret' = [ret EXCEPT ![g] = FALSE]
  /\ absRet' = [absRet EXCEPT ![g] = FALSE]
  /\ UNCHANGED <<l, mutex, tmp, calls, abs>>
  /\ ConcFrame

ConcNext ==
  \E g \in Goroutines :
    \/ \E op \in {"Failure", "Success", "Locked"}, userName \in Users :
         Invoke(g, op, userName)
    \/ Lock(g)
    \/ FailureRead(g)
    \/ FailureWrite(g)
    \/ FailureReturn(g)
    \/ SuccessCheck(g)
    \/ SuccessDelete(g)
    \/ LockedReturn(g)
    \/ Unlock(g)
    \/ Return(g)

(***************************************************************************)
(* Go strings are sequences of one-character strings.                      *)
(***************************************************************************)
\* The printable ASCII characters, from code 32 on (the double quote, the
\* backslash and the back quote, which no string of the model holds, by name).
Printable == <<
     " ", "!", "dquote", "#", "$", "%", "&", "'", "(", ")", "*", "+",
     ",", "-", ".", "/", "0", "1", "2", "3", "4", "5", "6", "7",
     "8", "9", ":", ";", "<", "=", ">", "?", "@", "A", "B", "C",
     "D", "E", "F", "G", "H", "I", "J", "K", "L", "M", "N", "O",
     "P", "Q", "R", "S", "T", "U", "V", "W", "X", "Y", "Z", "[",
     "bslash", "]", "^", "_", "bquote", "a", "b", "c", "d", "e", "f", "g",
     "h", "i", "j", "k", "l", "m", "n", "o", "p", "q", "r", "s",
     "t", "u", "v", "w", "x", "y", "z", "{", "|", "}", "~" >>

\* The byte of a character.
Ord == [c \in {Printable[i] : i \in 1..Len(Printable)} |->
          31 + (CHOOSE i \in 1..Len(Printable) : Printable[i] = c)]

DigitChars == <<"0", "1", "2", "3", "4", "5", "6", "7", "8", "9">>

IsDigit(c) == \E d \in 1..10 : DigitChars[d] = c

DigitValue(c) == (CHOOSE d \in 1..10 : DigitChars[d] = c) - 1

RECURSIVE Digits(_)
\* The decimal digits of n >= 0.
Digits(n) ==
  IF n < 10 THEN <<DigitChars[n + 1]>>
  ELSE Digits(n \div 10) \o <<DigitChars[(n % 10) + 1]>>

\* fmt's %d verb, strconv.FormatInt(n, 10).
FormatInt(n) == IF n < 0 THEN <<"-">> \o Digits(-n) ELSE Digits(n)

RECURSIVE DigitsValue(_)
\* The number a nonempty string of digits denotes.
DigitsValue(str) ==
  IF Len(str) = 1 THEN DigitValue(str[1])
  ELSE 10 * DigitsValue(SubSeq(str, 1, Len(str) - 1)) + DigitValue(str[Len(str)])

\* The digits of 1<<63 - 1 and of 1<<63, the largest magnitudes of a positive
\* and of a negative int64.
MaxInt64Digits ==
  <<"9", "2", "2", "3", "3", "7", "2", "0", "3", "6",
    "8", "5", "4", "7", "7", "5", "8", "0", "7">>

MinInt64Digits ==
  <<"9", "2", "2", "3", "3", "7", "2", "0", "3", "6",
    "8", "5", "4", "7", "7", "5", "8", "0", "8">>

RECURSIVE TrimLeftZeros(_)
\* A string of digits without its leading zeros.
TrimLeftZeros(str) ==
  IF Len(str) > 1 /\ str[1] = "0"
    THEN TrimLeftZeros(SubSeq(str, 2, Len(str)))
    ELSE str

\* a > b for two strings of digits of the same length.
DigitsGreater(a, b) ==
  \E i \in 1..Len(a) :
    /\ DigitValue(a[i]) > DigitValue(b[i])
    /\ \A j \in 1..(i - 1) : a[j] = b[j]

\* strconv.ParseInt's range error: the magnitude does not fit in 64 bits.
OutOfRange(body, negative) ==
  LET d == TrimLeftZeros(body)
      limit == IF negative THEN MinInt64Digits ELSE MaxInt64Digits IN
  \/ Len(d) > Len(limit)
  \/ Len(d) = Len(limit) /\ DigitsGreater(d, limit)

\* strconv.ParseInt(str, 10, 64): an optional sign, then one or more digits,
\* denoting a number of the 64-bit range.  err is TRUE for anything else.
ParseInt(str) ==
  LET signed == Len(str) > 0 /\ str[1] \in {"+", "-"}
      body == IF signed THEN SubSeq(str, 2, Len(str)) ELSE str IN
  IF Len(body) = 0 \/ \E i \in 1..Len(body) : ~IsDigit(body[i])
    THEN [err |-> TRUE, value |-> 0]
  ELSE IF OutOfRange(body, signed /\ str[1] = "-")
    THEN [err |-> TRUE, value |-> 0]
    ELSE [err |-> FALSE,
          value |-> IF signed /\ str[1] = "-"
                      THEN 0 - DigitsValue(body) ELSE DigitsValue(body)]

\* strings.IndexByte(str, c): the 0-based index of the first c, or -1.
IndexByte(str, c) ==
  IF \E i \in 1..Len(str) : str[i] = c
    THEN (CHOOSE i \in 1..Len(str) :
            str[i] = c /\ \A j \in 1..(i - 1) : str[j] # c) - 1
    ELSE -1

RECURSIVE TrimRight(_, _)
\* strings.TrimRight(str, c) for a one-character cutset.
TrimRight(str, c) ==
  IF Len(str) > 0 /\ str[Len(str)] = c
    THEN TrimRight(SubSeq(str, 1, Len(str) - 1), c)
    ELSE str

(***************************************************************************)
(* encoding/base32, crypto/hmac, kdf.Random and time.Time.                 *)
(***************************************************************************)
\* base32.StdEncoding's alphabet.
encodeStd == <<"A", "B", "C", "D", "E", "F", "G", "H", "I", "J", "K", "L", "M", "N", "O", "P", "Q", "R", "S", "T", "U", "V", "W", "X", "Y", "Z", "2", "3", "4", "5", "6", "7">>

\* The powers of two a shift of a 16-bit window needs.
Pow2 == [i \in 0..16 |-> 2 ^ i]

\* base32.StdEncoding.EncodeToString(bytes): five bits per character, most
\* significant first, zero bits filling the last character, then "=" up to a
\* multiple of eight characters.
EncodeToString(bytes) ==
  LET n == Len(bytes)
      nchars == (8 * n + 4) \div 5
      total == ((n + 4) \div 5) * 8
      byte(k) == IF k <= n THEN bytes[k] ELSE 0
      quintet(j) ==
        LET bit == 5 * (j - 1)
            k == (bit \div 8) + 1
            r == bit % 8 IN
        ((byte(k) * 256 + byte(k + 1)) \div Pow2[11 - r]) % 32 IN
  [j \in 1..total |-> IF j <= nchars THEN encodeStd[quintet(j) + 1] ELSE "="]

\* sha256.Size: the length of an HMAC-SHA256 digest.
Sha256Size == 32

\* hmac.New(sha256.New, secret), Write(message), Sum(nil).  HMAC-SHA256 is
\* taken to be free of collisions: the digest stands for the pair of key and
\* message, written as 32 bytes (the key's number, the message's bytes, zeros).
HmacSum(secret, message) ==
  [i \in 1..Sha256Size |->
     IF i = 1 THEN secret
     ELSE IF i - 1 <= Len(message) THEN Ord[message[i - 1]]
     ELSE 0]

\* hmac.Equal: a comparison of the two byte strings.
HmacEqual(a, b) == a = b

\* kdf.Random(64): crypto/rand is taken to deliver, and never to repeat, its
\* 64 bytes: the n-th value drawn stands for itself.
Random(drawn) == drawn + 1

\* A time.Time is [sec, nsec]: whole seconds since the epoch, and the
\* nanoseconds (0 .. 999999999) into that second.
MaxSec == 1

Nanoseconds == {0, 500000000}

\* The first second of the model lies before 1970.
MinSec == 0 - 1

\* The instants the model passes as expire, now and lastLogin.
Times == [sec : MinSec..MaxSec, nsec : Nanoseconds]

\* Time.Unix(): the whole seconds.
Unix(t) == t.sec

\* Time.Before
Before(t, u) == t.sec < u.sec \/ (t.sec = u.sec /\ t.nsec < u.nsec)

(***************************************************************************)
(* session.go: UserIdSession                                               *)
(***************************************************************************)
kUserIdKey == "kUserIdKey"

kXsrfSecretKey == "kXsrfSecretKey"

kLastLoginKey == "kLastLoginKey"

\* make(map[interface{}]interface{})
EmptyValues == [k \in {} |-> 0]

\* values[key] = value
Put(m, key, value) ==
  [k \in (DOMAIN m) \cup {key} |-> IF k = key THEN value ELSE m[k]]

\* delete(values, key)
Remove(m, key) == [k \in (DOMAIN m) \ {key} |-> m[k]]

\* UserId(): [ok, id]
UserId(m) ==
  IF kUserIdKey \in DOMAIN m
    THEN [ok |-> TRUE, id |-> m[kUserIdKey]]
    ELSE [ok |-> FALSE, id |-> 0]

\* xsrfSecret(): [ok, secret]
xsrfSecret(m) ==
  IF kXsrfSecretKey \in DOMAIN m
    THEN [ok |-> TRUE, secret |-> m[kXsrfSecretKey]]
    ELSE [ok |-> FALSE, secret |-> 0]

\* LastLogin(): [ok, time]
LastLogin(m) ==
  IF kLastLoginKey \in DOMAIN m
    THEN [ok |-> TRUE, time |-> m[kLastLoginKey]]
    ELSE [ok |-> FALSE, time |-> 0]

\* setXsrfSecret, clearXsrfSecret
setXsrfSecret(m, secret) == Put(m, kXsrfSecretKey, secret)

clearXsrfSecret(m) == Remove(m, kXsrfSecretKey)

\* SetUserId that keeps the secret the session already has.
SetUserIdKeepsSecret(m, id, secret) ==
  IF xsrfSecret(m).ok
    THEN Put(m, kUserIdKey, id)
    ELSE setXsrfSecret(Put(m, kUserIdKey, id), secret)

\* SetUserId: the map it leaves, secret being what kdf.Random(64) returned.
SetUserIdValues(m, id, secret) == setXsrfSecret(Put(m, kUserIdKey, id), secret)

\* ClearUserId that takes the last login with it.
ClearUserIdAndLastLogin(m) ==
  Remove(clearXsrfSecret(Remove(m, kUserIdKey)), kLastLoginKey)

\* ClearUserId that leaves the secret in the session.
ClearUserIdKeepsSecret(m) == Remove(m, kUserIdKey)

\* ClearUserId: the map it leaves.
ClearUserIdValues(m) == clearXsrfSecret(Remove(m, kUserIdKey))

\* ClearAll that deletes the keys of this package only.
ClearAllOwnKeys(m) ==
  Remove(Remove(Remove(m, kUserIdKey), kXsrfSecretKey), kLastLoginKey)

RECURSIVE ClearAllValues(_)
\* ClearAll: for key := range values { delete(values, key) }.
ClearAllValues(m) ==
  IF DOMAIN m = {} THEN m
  ELSE ClearAllValues(Remove(m, CHOOSE key \in DOMAIN m : TRUE))

\* The message without its expiry.
MessageWithoutExpire(expireUnix, userId, action) ==
  FormatInt(userId) \o <<"_">> \o action

\* The message without its action.
MessageWithoutAction(expireUnix, userId, action) ==
  FormatInt(expireUnix) \o <<"_">> \o FormatInt(userId)

\* fmt.Sprintf("%d_%d_%s", expireUnix, userId, action)
Message(expireUnix, userId, action) ==
  FormatInt(expireUnix) \o <<"_">> \o FormatInt(userId) \o <<"_">> \o action

\* The checksum with the "=" that fill it up left in.
ChecksumPadded(secret, expireUnix, userId, action) ==
  EncodeToString(HmacSum(secret, Message(expireUnix, userId, action)))

\* The checksum of NewXsrfToken and VerifyXsrfToken as a string: the
\* base32 text of the MAC with its trailing "=" trimmed.
Checksum(secret, expireUnix, userId, action) ==
  TrimRight(
    EncodeToString(HmacSum(secret, Message(expireUnix, userId, action))), "=")

\* NewXsrfToken on a session that has a user id and a secret: the token.
NewXsrfTokenRet(m, action, expire) ==
  LET expireUnix == Unix(expire) IN
  FormatInt(expireUnix) \o <<":">>
    \o Checksum(xsrfSecret(m).secret, expireUnix, UserId(m).id, action)

\* An expiry check that lets the token through at its expiry second.
ExpiredAfter(nowUnix, expireUnix) == nowUnix > expireUnix

\* if now.Unix() >= expireUnix { return false }
Expired(nowUnix, expireUnix) == nowUnix >= expireUnix

\* The checksum field cut one byte early, so that it starts with the ":".
ExpectedChecksumWithColon(tokenToBeVerified, idx) ==
  SubSeq(tokenToBeVerified, idx + 1, Len(tokenToBeVerified))

\* tokenToBeVerified[idx+1:], idx being 0-based.
ExpectedChecksum(tokenToBeVerified, idx) ==
  SubSeq(tokenToBeVerified, idx + 2, Len(tokenToBeVerified))

NoPanic == ""

\* The run-time panic of a slice expression whose bounds are out of range.
kSliceBounds == "slice bounds out of range"

\* str[lo:hi] is within bounds.
SliceInRange(str, lo, hi) == 0 <= lo /\ lo <= hi /\ hi <= Len(str)

\* The check for the delimiter left out.
NoDelimiterIgnored(idx) == FALSE

\* if idx == -1 { return false }
NoDelimiter(idx) == idx = -1

\* VerifyXsrfToken: the panic it ends in, NoPanic if it returns.  Its slice
\* expressions, tokenToBeVerified[:idx] and tokenToBeVerified[idx+1:], are
\* the statements that can panic on a session whose values this package
\* wrote.
VerifyXsrfTokenPanic(m, tokenToBeVerified, action, now) ==
  LET idx == IndexByte(tokenToBeVerified, ":") IN
  IF NoDelimiter(idx) THEN NoPanic
  ELSE IF ~SliceInRange(tokenToBeVerified, 0, idx) THEN kSliceBounds
  ELSE
    LET parsed == ParseInt(SubSeq(tokenToBeVerified, 1, idx)) IN
    IF parsed.err THEN NoPanic
    ELSE IF Expired(Unix(now), parsed.value) THEN NoPanic
    ELSE IF ~UserId(m).ok THEN NoPanic
    ELSE IF ~xsrfSecret(m).ok THEN NoPanic
    ELSE IF ~SliceInRange(tokenToBeVerified, idx + 1, Len(tokenToBeVerified))
      THEN kSliceBounds
    ELSE NoPanic

\* VerifyXsrfToken: the value it returns.
VerifyXsrfTokenRet(m, tokenToBeVerified, action, now) ==
  LET idx == IndexByte(tokenToBeVerified, ":") IN
  IF NoDelimiter(idx) THEN FALSE
  ELSE
    LET parsed == ParseInt(SubSeq(tokenToBeVerified, 1, idx))
        expireUnix == parsed.value IN
    IF parsed.err THEN FALSE
    ELSE IF Expired(Unix(now), expireUnix) THEN FALSE
    ELSE IF ~UserId(m).ok THEN FALSE
    ELSE IF ~xsrfSecret(m).ok THEN FALSE
    ELSE
      LET expectedChecksum == ExpectedChecksum(tokenToBeVerified, idx)
          checksum ==
            Checksum(xsrfSecret(m).secret, expireUnix, UserId(m).id, action) IN
      HmacEqual(expectedChecksum, checksum)

(***************************************************************************)
(* The calls a handler makes on one session.                               *)
(***************************************************************************)
\* The values kdf.Random produces in one run.
MaxRandoms == 2

\* The user ids and the actions of the session tests.
UserIds == {25, 26}

MyPage == <<"M", "y", "P", "a", "g", "e">>

AnotherPage == <<"A", "n", "o", "t", "h", "e", "r">>

Actions == {MyPage, AnotherPage}

\* The expire arguments of NewXsrfToken: a token that expires in the first
\* second is valid at no instant of the model.
Expiries == {t \in Times : t.sec > MinSec}

\* The lastLogin arguments of SetLastLogin.
LastLogins == {[sec |-> 0, nsec |-> 0]}

\* What a handler keeps in the session's Values under keys of its own.
ForeignKeys == {"1"}

ForeignValues == {2}

NoSessionCall == [op |-> "none"]

SessionFrame ==
  UNCHANGED <<l, seqVars, concVars, requestVars, kdfVars, dbVars>>

\* The tokens handed out so far, as strings.
TokensOf(records) == {r.token : r \in records}

SetUserId(id) ==
  /\ sPanic = NoPanic
  /\ randoms < MaxRandoms
  /\ values' = SetUserIdValues(values, id, Random(randoms))
  /\ randoms' = randoms + 1
  /\ stale' = stale \cup issued
  /\ issued' = {}
  /\ sCall' = [op |-> "SetUserId"]
  /\ UNCHANGED sPanic
  /\ SessionFrame

ClearUserId ==
  /\ sPanic = NoPanic
  /\ values' = ClearUserIdValues(values)
  /\ stale' = stale \cup issued
  /\ issued' = {}
  /\ sCall' = [op |-> "ClearUserId"]
  /\ UNCHANGED <<randoms, sPanic>>
  /\ SessionFrame

SetLastLogin(lastLogin) ==
  /\ sPanic = NoPanic
  /\ values' = Put(values, kLastLoginKey, lastLogin)
  /\ sCall' = [op |-> "SetLastLogin"]
  /\ UNCHANGED <<randoms, sPanic, issued, stale>>
  /\ SessionFrame

ClearLastLogin ==
  /\ sPanic = NoPanic
  /\ values' = Remove(values, kLastLoginKey)
  /\ sCall' = [op |-> "ClearLastLogin"]
  /\ UNCHANGED <<randoms, sPanic, issued, stale>>
  /\ SessionFrame

ClearAll ==
  /\ sPanic = NoPanic
  /\ values' = ClearAllValues(values)
  /\ stale' = stale \cup issued
  /\ issued' = {}
  /\ sCall' = [op |-> "ClearAll", had |-> DOMAIN values]
  /\ UNCHANGED <<randoms, sPanic>>
  /\ SessionFrame

\* s.S.Values[key] = value, by a handler that keeps data of its own in the
\* session.
PutValue(key, value) ==
  /\ sPanic = NoPanic
  /\ values' = Put(values, key, value)
  /\ sCall' = [op |-> "PutValue"]
  /\ UNCHANGED <<randoms, sPanic, issued, stale>>
  /\ SessionFrame

\* NewXsrfToken that goes on without a user id and without a secret.
NewXsrfTokenNeverPanics(m) == NoPanic

\* NewXsrfToken: the panic it ends in, NoPanic if it returns.
NewXsrfTokenPanic(m) ==
  IF ~UserId(m).ok THEN "No userId."
  ELSE IF ~xsrfSecret(m).ok THEN "No secret."
  ELSE NoPanic

NewXsrfToken(action, expire) ==
  /\ sPanic = NoPanic
  /\ IF NewXsrfTokenPanic(values) # NoPanic
       THEN /\ sPanic' = NewXsrfTokenPanic(values)
            /\ UNCHANGED <<values, randoms, issued, stale, sCall>>
       ELSE LET token == NewXsrfTokenRet(values, action, expire) IN
            /\ issued' =
                 {[token |-> token, action |-> action, expire |-> expire,
                   userId |-> UserId(values).id]}
            /\ stale' = {}
            /\ sCall' = [op |-> "NewXsrfToken"]
            /\ UNCHANGED <<values, randoms, sPanic>>
  /\ SessionFrame

\* The token of record r with its expiry field rewritten to expireUnix.
Tamper(r, expireUnix) ==
  LET idx == IndexByte(r.token, ":") IN
  FormatInt(expireUnix) \o SubSeq(r.token, idx + 1, Len(r.token))

\* The expiry seconds a forger writes into the token of record r.
ForgedExpiries(r) == {Unix(r.expire) - 1, Unix(r.expire) + 1}

\* The token of record r with its checksum replaced.
GarbageChecksum(r) == FormatInt(Unix(r.expire)) \o <<":", "x">>

\* A number beyond the 64-bit range.
TwentyNines == [i \in 1..20 |-> "9"]

\* Strings that NewXsrfToken never returned: the missing token, one without
\* a delimiter, one whose expiry is no number, one whose expiry is out of
\* range, one with nothing after the delimiter.
Garbage ==
  { <<>>, <<"g", "x">>, <<"g", ":", "x">>, TwentyNines \o <<":", "x">>,
    <<"1", ":">> }

\* What the client sends as a token: the one it holds, or that one with
\* another expiry or another checksum written in.
TokenInputs ==
  TokensOf(issued \cup stale)
    \cup UNION {{Tamper(r, e) : e \in ForgedExpiries(r)} : r \in issued}
    \cup {GarbageChecksum(r) : r \in issued}

\* The token of record r with its expiry spelled another way: with a plus
\* sign, with a zero in front.
Respellings(r) == { <<"+">> \o r.token, <<"0">> \o r.token }

\* The instant at which the garbage is sent.
kNow == [sec |-> 0, nsec |-> 0]

VerifyXsrfToken(tokenToBeVerified, action, now) ==
  /\ sPanic = NoPanic
  /\ sCall' = [op |-> "VerifyXsrfToken", token |-> tokenToBeVerified,
               action |-> action, now |-> now,
               ret |-> VerifyXsrfTokenRet(values, tokenToBeVerified, action, now)]
  /\ sPanic' = VerifyXsrfTokenPanic(values, tokenToBeVerified, action, now)
  /\ UNCHANGED <<values, randoms, issued, stale>>
  /\ SessionFrame

SessionInit ==
  /\ values = EmptyValues
  /\ randoms = 0
  /\ sPanic = NoPanic
  /\ issued = {}
  /\ stale = {}
  /\ sCall = NoSessionCall

SessionNext ==
  \/ \E id \in UserIds : SetUserId(id)
  \/ ClearUserId
  \/ \E lastLogin \in LastLogins : SetLastLogin(lastLogin)
  \/ ClearLastLogin
  \/ ClearAll
  \/ \E key \in ForeignKeys, value \in ForeignValues : PutValue(key, value)
  \/ \E action \in Actions, expire \in Expiries : NewXsrfToken(action, expire)
  \/ \E token \in TokenInputs, action \in Actions, now \in Times :
       VerifyXsrfToken(token, action, now)
  \/ \E token \in Garbage : VerifyXsrfToken(token, MyPage, kNow)
  \/ \E r \in issued : \E token \in Respellings(r) :
       VerifyXsrfToken(token, r.action, kNow)

(***************************************************************************)
(* session.go: NewUserSession, GetUserSession.  One request at a time; the  *)
(* session store keeps, under the session id of the test's cookie, the map  *)
(* of the variable values.                                                  *)
(***************************************************************************)
\* How many UserSession objects the factory makes in one run.
MaxSessions == 3

kSessionContextKey == "kSessionContextKey"

\* The nil error, and the errors of the tests and of a failing session store.
NilError == ""

errNoSuchId == "session_util_test: no such id."

errDb == "session_util_test: A database error happened."

errStore == "session store error"

\* The nil *int64 and the nil UserSession.
NilUser == 0

NilSession == [obj |-> 0]

\* The user stores of the tests: store{user} and errorStore{}.
store(user) == [type |-> "store", user |-> user]

errorStore == [type |-> "errorStore"]

UserGetters == {store(25), store(26), errorStore}

\* GetUser of store and of errorStore: [userPtr, err].
GetUser(userGetter, id) ==
  IF userGetter.type = "errorStore"
    THEN [userPtr |-> NilUser, err |-> errDb]
  ELSE IF id = userGetter.user
    THEN [userPtr |-> userGetter.user, err |-> NilError]
  ELSE [userPtr |-> NilUser, err |-> errNoSuchId]

\* What the request carries: the cookie of the stored session, or none (or
\* one the store does not know), for which the store makes a new session.
Cookies == {"123456", "none"}

\* sessionStore.Get(r, cookieName): [gs, err], gs being the Values of the
\* session.
StoreGet(stored, cookie, storeErr) ==
  IF storeErr # NilError THEN [gs |-> EmptyValues, err |-> storeErr]
  ELSE IF cookie = "123456" THEN [gs |-> stored, err |-> NilError]
  ELSE [gs |-> EmptyValues, err |-> NilError]

\* A factory that wraps a session of its own making.
newUserSessionEmpty(obj, gs) ==
  [obj |-> obj, Values |-> EmptyValues, User |-> NilUser]

\* The factory of the tests, newUserSession: object obj around session gs.
newUserSession(obj, gs) == [obj |-> obj, Values |-> gs, User |-> NilUser]

\* userSession.SetUser
SetUser(result, userPtr) == [result EXCEPT !.User = userPtr]

\* A lookup made whether or not the session has a user id.
HasUserIdAlways(result) == TRUE

\* if userId, ok := result.UserId(); ok
HasUserId(result) == UserId(result.Values).ok

\* Every error of GetUser returned to the caller.
PropagatesEvery(err, noSuchId) == TRUE

\* No error of GetUser returned to the caller.
PropagatesNone(err, noSuchId) == FALSE

\* else if err != noSuchId { return nil, err }
Propagates(err, noSuchId) == err # noSuchId

\* A context.Set that stores nothing.
ContextSetNothing(ctx, key, value) == ctx

\* context.Set(r, key, value), context.Get(r, key) and context.Clear(r) on
\* the data that gorilla context keeps for request r.
ContextSet(ctx, key, value) == Put(ctx, key, value)

ContextGet(ctx, key) == IF key \in DOMAIN ctx THEN ctx[key] ELSE NilSession

ContextClear == [k \in {} |-> 0]

\* NewUserSession: what it returns, the context it leaves and the calls it
\* makes on the user store and on the session.  stored is the map the
\* session store keeps, obj the object the factory makes.
NewUserSessionRet(ctx, stored, cookie, userGetter, noSuchId, storeErr, obj) ==
  LET got == StoreGet(stored, cookie, storeErr)
      result == newUserSession(obj, got.gs)
      looked == GetUser(userGetter, UserId(result.Values).id)
      Done(session, getUser, setUser) ==
        [session |-> session, err |-> NilError,
         context |-> ContextSet(ctx, kSessionContextKey, session),
         getUser |-> getUser, setUser |-> setUser] IN
  IF got.err # NilError
    THEN [session |-> NilSession, err |-> got.err, context |-> ctx,
          getUser |-> 0, setUser |-> 0]
  ELSE IF HasUserId(result)
    THEN IF looked.err = NilError
           THEN Done(SetUser(result, looked.userPtr), 1, 1)
         ELSE IF Propagates(looked.err, noSuchId)
           THEN [session |-> NilSession, err |-> looked.err, context |-> ctx,
                 getUser |-> 1, setUser |-> 0]
         ELSE Done(result, 1, 0)
  ELSE Done(result, 0, 0)

\* The errors sessionStore.Get returns.
StoreErrors == {NilError, errStore}

NoRequestCall == [op |-> "none"]

RequestFrame ==
  UNCHANGED <<l, seqVars, concVars, sessionVars, kdfVars, dbVars>>

NewUserSession(cookie, userGetter, storeErr) ==
  /\ rPanic = NoPanic
  /\ made < MaxSessions
  /\ LET out == NewUserSessionRet(context, values, cookie, userGetter,
                                  errNoSuchId, storeErr, made + 1) IN
     /\ us' = [session |-> out.session, err |-> out.err]
     /\ context' = out.context
     /\ rCall' = [op |-> "NewUserSession", cookie |-> cookie,
                  userGetter |-> userGetter, storeErr |-> storeErr,
                  stored |-> values,
                  getUser |-> out.getUser, setUser |-> out.setUser]
  /\ made' = IF storeErr = NilError THEN made + 1 ELSE made
  /\ UNCHANGED rPanic
  /\ RequestFrame

\* GetUserSession: context.Get(r, kSessionContextKey).(UserSession), a type
\* assertion that panics on nil.
GetUserSession ==
  /\ rPanic = NoPanic
  /\ LET value == ContextGet(context, kSessionContextKey) IN
     IF value = NilSession
       THEN /\ rPanic' = "interface conversion: interface is nil"
            /\ UNCHANGED rCall
       ELSE /\ rCall' = [op |-> "GetUserSession", ret |-> value]
            /\ UNCHANGED rPanic
  /\ UNCHANGED <<context, us, made>>
  /\ RequestFrame

\* context.Clear(r), which the caller runs when the request is done.
Clear ==
  /\ rPanic = NoPanic
  /\ context' = ContextClear
  /\ rCall' = [op |-> "Clear"]
  /\ UNCHANGED <<us, made, rPanic>>
  /\ RequestFrame

RequestInit ==
  /\ context = ContextClear
  /\ us = [session |-> NilSession, err |-> NilError]
  /\ rCall = NoRequestCall
  /\ made = 0
  /\ rPanic = NoPanic

\* Requests on a session that logs in and out in between.
UserSessionNext ==
  \/ \E id \in UserIds : SetUserId(id)
  \/ ClearUserId
  \/ \E cookie \in Cookies, userGetter \in UserGetters,
        storeErr \in StoreErrors :
       NewUserSession(cookie, userGetter, storeErr)
  \/ GetUserSession
  \/ Clear

(***************************************************************************)
(* kdf: NewHMAC, VerifyHMAC, KDF over pbkdf2.Key and HMAC-SHA256.          *)
(*                                                                         *)
(* Byte strings are sequences of numbers 0..255.  HMAC-SHA256 is taken to  *)
(* be free of collisions and is computed by table: the n-th different pair *)
(* of key and message it is asked for gets the 32-byte digest with bit n   *)
(* set and no other (oracle is the table).  What HMAC does to its key      *)
(* before hashing is computed as HMAC does it.                             *)
(***************************************************************************)
\* sha256.BlockSize
Sha256BlockSize == 64

\* hmac.New: a key shorter than a block is filled up with zero bytes.  (A
\* key longer than a block is replaced by its hash first; the plaintexts of
\* the model are shorter.)
HmacKey(key) ==
  [i \in 1..Sha256BlockSize |-> IF i <= Len(key) THEN key[i] ELSE 0]

\* The digest that stands for the n-th entry of the table.
Digest(n) ==
  [i \in 1..Sha256Size |->
     IF (n - 1) \div 8 = i - 1 THEN Pow2[(n - 1) % 8] ELSE 0]

\* The place of query q in table, Len(table) + 1 if it is new.
Place(table, q) ==
  IF \E i \in 1..Len(table) : table[i] = q
    THEN CHOOSE i \in 1..Len(table) : table[i] = q
    ELSE Len(table) + 1

\* mac := hmac.New(sha256.New, key); mac.Write(msg); mac.Sum(nil): the
\* digest, and the table after it.
Sum(table, key, msg) ==
  LET q == <<HmacKey(key), msg>>
      n == Place(table, q) IN
  [table |-> IF n > Len(table) THEN Append(table, q) ELSE table,
   sum |-> Digest(n)]

\* a ^ b on bytes and on byte strings of one length.
Bit(a, i) == (a \div Pow2[i]) % 2

XorByte(a, b) ==
  LET x(i) == ((Bit(a, i) + Bit(b, i)) % 2) * Pow2[i] IN
  x(0) + x(1) + x(2) + x(3) + x(4) + x(5) + x(6) + x(7)

Xor(a, b) == [i \in 1..Len(a) |-> XorByte(a[i], b[i])]

RECURSIVE Pbkdf2Rounds(_, _, _, _, _, _)
\* pbkdf2.Key's inner loop: for n := 2; n <= iter; n++ { U = prf(U); T ^= U }
Pbkdf2Rounds(table, password, U, T, n, iter) ==
  IF n > iter THEN [table |-> table, key |-> T]
  ELSE LET next == Sum(table, password, U) IN
       Pbkdf2Rounds(next.table, password, next.sum, Xor(T, next.sum),
                    n + 1, iter)

\* pbkdf2.Key(password, salt, iter, 32, sha256.New): one block of 32 bytes,
\* T = U1 ^ ... ^ Uiter with U1 = prf(salt || INT(1)).
Pbkdf2Key(table, password, salt, iter) ==
  LET first == Sum(table, password, salt \o <<0, 0, 0, 1>>) IN
  Pbkdf2Rounds(first.table, password, first.sum, first.sum, 2, iter)

\* KDF(plain, salt, reps): [table, key]
KDF(table, plain, salt, reps) == Pbkdf2Key(table, plain, salt, reps)

\* serializeint(i, counter[:]): the four bytes of i, highest first.
serializeint(i) ==
  << (i \div 16777216) % 256, (i \div 65536) % 256, (i \div 256) % 256,
     i % 256 >>

RECURSIVE KDFLoop(_, _, _, _, _)
\* The loop of the kdf package that does not use pbkdf2:
\* for i := 0; i < reps; i++ { mac.Write(serializeint(i)); mac.Write(result);
\*                             result = mac.Sum(nil); mac.Reset() }
KDFLoop(table, plain, result, i, reps) ==
  IF i >= reps THEN [table |-> table, key |-> result]
  ELSE LET next == Sum(table, plain, serializeint(i) \o result) IN
       KDFLoop(next.table, plain, next.sum, i + 1, reps)

\* KDF(plain, salt, reps) of the kdf package that does not use pbkdf2:
\* result := salt, then the loop; [table, key]
KDFIterated(table, plain, salt, reps) == KDFLoop(table, plain, salt, 0, reps)

\* A source of randomness that delivers the same bytes every time.
RandomBytesFixed(count, drawn) == [i \in 1..count |-> 0]

\* Random(count): crypto/rand is taken to deliver, and never to repeat, its
\* bytes; the value drawn after drawn others ends in the byte drawn + 1.
RandomBytes(count, drawn) ==
  [i \in 1..count |-> IF i = count THEN drawn + 1 ELSE 0]

\* The length of the salt: salt := Random(8), mac[:8], mac[8:]
kSaltLen == 8

\* NewHMAC(plain, reps): [table, mac]
NewHMACRet(table, plain, reps, drawn) ==
  LET salt == RandomBytes(kSaltLen, drawn)
      kdf == KDF(table, plain, salt, reps) IN
  [table |-> kdf.table, mac |-> salt \o kdf.key]

\* A salt read one byte short.
MacSaltShort(mac) == SubSeq(mac, 1, kSaltLen - 1)

\* mac[:8] and mac[8:]
MacSalt(mac) == SubSeq(mac, 1, kSaltLen)

MacKey(mac) == SubSeq(mac, kSaltLen + 1, Len(mac))

\* VerifyHMAC: the panic it ends in, NoPanic if it returns.  mac[8:] is
\* evaluated first and is out of range for a mac shorter than 8 bytes.
VerifyHMACPanic(mac) ==
  IF ~SliceInRange(mac, kSaltLen, Len(mac)) THEN kSliceBounds
  ELSE IF ~SliceInRange(mac, 0, kSaltLen) THEN kSliceBounds
  ELSE NoPanic

\* VerifyHMAC(plain, mac, reps): [table, ret]; ret is what it returns if it
\* does not panic.
VerifyHMACRet(table, plain, mac, reps) ==
  IF VerifyHMACPanic(mac) # NoPanic THEN [table |-> table, ret |-> FALSE]
  ELSE
    LET kdf == KDF(table, plain, MacSalt(mac), reps) IN
    [table |-> kdf.table, ret |-> HmacEqual(MacKey(mac), kdf.key)]

\* The repetitions tried: DefaultReps is 1972, the model's are few.
MaxReps == 2

Reps == 0..MaxReps

\* The plaintexts: "be", "be" followed by a zero byte, "ab".
Plains == { <<98, 101>>, <<98, 101, 0>>, <<97, 98>> }

NoKdfCall == [op |-> "none"]

\* The hashes of records, as byte strings.
MacsOf(records) == {r.mac : r \in records}

\* The repetitions hash mac was made with.
RepsOf(records, mac) == {r.reps : r \in {x \in records : x.mac = mac}}

KdfFrame == UNCHANGED <<l, seqVars, concVars, requestVars, dbVars>>

\* No call of the kdf package has panicked.
KdfRunning == IF kCall.op = "VerifyHMAC" THEN kCall.panic = NoPanic ELSE TRUE

\* Byte strings that are no hash of NewHMAC: the empty one (a nil []byte as
\* well), zero bytes fewer than a salt, as many as a salt, one fewer and one
\* more than a hash, and as many as a hash.
Zeros(n) == [i \in 1..n |-> 0]

BadMacs == {Zeros(0), Zeros(7), Zeros(8), Zeros(39), Zeros(40), Zeros(41)}

NewHMAC(plain, reps) ==
  /\ KdfRunning
  /\ randoms < MaxRandoms
  /\ LET out == NewHMACRet(oracle, plain, reps, randoms) IN
     /\ oracle' = out.table
     /\ macs' = macs \cup {[plain |-> plain, reps |-> reps, mac |-> out.mac,
                            call |-> Cardinality(macs) + 1]}
     /\ kCall' = [op |-> "NewHMAC", plain |-> plain, reps |-> reps,
                  mac |-> out.mac]
  /\ randoms' = randoms + 1
  /\ UNCHANGED <<values, sPanic, issued, stale, sCall, keys>>
  /\ KdfFrame

VerifyHMAC(plain, mac, reps) ==
  /\ KdfRunning
  /\ UNCHANGED <<macs, keys, sessionVars>>
  /\ LET out == VerifyHMACRet(oracle, plain, mac, reps) IN
     /\ oracle' = out.table
     /\ kCall' = [op |-> "VerifyHMAC", plain |-> plain, reps |-> reps,
                  mac |-> mac, ret |-> out.ret,
                  panic |-> VerifyHMACPanic(mac)]
  /\ KdfFrame

KdfInit ==
  /\ oracle = <<>>
  /\ macs = {}
  /\ kCall = NoKdfCall
  /\ keys = {}

\* Hashes are made and then verified with the repetitions they were made
\* with.
KdfNext ==
  \/ \E plain \in Plains, reps \in Reps : NewHMAC(plain, reps)
  \/ \E plain \in Plains, mac \in MacsOf(macs) :
       \E reps \in RepsOf(macs, mac) : VerifyHMAC(plain, mac, reps)

\* Byte strings that are no hash are verified.
KdfInvalidNext ==
  \E plain \in Plains, mac \in BadMacs, reps \in Reps :
    VerifyHMAC(plain, mac, reps)

\* DefaultSalt of the package that uses pbkdf2.
DefaultSalt == <<49, 65, 89, 38, 83, 89, 171, 36>>

\* The salts: none, one byte, DefaultSalt.
Salts == { <<>>, <<7>>, DefaultSalt }

\* How many keys are derived in a run.
MaxKeys == 2

\* A call of KDF that derived key with table as the table after it.
KDFCalled(kdf, plain, salt, reps, out) ==
  /\ Cardinality(keys) < MaxKeys
  /\ oracle' = out.table
  /\ keys' = keys \cup {[kdf |-> kdf, plain |-> plain, salt |-> salt,
                          reps |-> reps, key |-> out.key]}
  /\ kCall' = [op |-> "KDF", kdf |-> kdf, plain |-> plain, salt |-> salt,
               reps |-> reps, key |-> out.key]
  /\ UNCHANGED <<macs, sessionVars>>
  /\ KdfFrame

\* kdf.KDF(plain, salt, reps) of the package that uses pbkdf2.
KDFPbkdf2(plain, salt, reps) ==
  KDFCalled("pbkdf2", plain, salt, reps, KDF(oracle, plain, salt, reps))

\* kdf.KDF(plain, salt, reps) of the package that iterates HMAC itself.
KDFHmac(plain, salt, reps) ==
  KDFCalled("hmac", plain, salt, reps, KDFIterated(oracle, plain, salt, reps))

\* Keys are derived with either package.
KdfKeyNext ==
  \/ \E plain \in Plains, salt \in Salts, reps \in Reps :
       KDFPbkdf2(plain, salt, reps)
  \/ \E plain \in Plains, salt \in Salts, reps \in Reps :
       KDFHmac(plain, salt, reps)

(***************************************************************************)
(* sqlite_db: Db.  new starts the goroutine of loop; callers of Do and     *)
(* Close meet it on the unbuffered channels requestCh and responseCh.      *)
(***************************************************************************)
\* The goroutines that call Do and Close on one Db.
Doers == {"d1", "d2", "d3"}

\* Calls of Do and Close the callers make, all together.
MaxDbCalls == 3

\* Errors: the nil error, testError(i), and the package's and the test's
\* error values.
Err(kind, i) == [kind |-> kind, i |-> i]

NilErr == Err("nil", 0)

testError(i) == Err("testError", i)

AlreadyClosed == Err("AlreadyClosed", 0)

beginFailed == Err("beginFailed", 0)

commitFailed == Err("commitFailed", 0)

closeFailed == Err("closeFailed", 0)

\* An Action is [isNil, err, doer, n]: err is what it returns when run; doer
\* and n tell whose call of Do passed it and which call that was.
NilAction == [isNil |-> TRUE, err |-> NilErr, doer |-> "", n |-> 0]

\* testAction(i) and testActionSucceed as passed by the n-th call.
testAction(doer, n) ==
  [isNil |-> FALSE, err |-> testError(n), doer |-> doer, n |-> n]

testActionSucceed(doer, n) ==
  [isNil |-> FALSE, err |-> NilErr, doer |-> doer, n |-> n]

\* A caller that has made no call yet.
NoDo ==
  [pc |-> "idle", n |-> 0, action |-> NilAction, late |-> FALSE,
   handled |-> FALSE, ran |-> FALSE, executed |-> NilErr, ret |-> NilErr]

\* new(conn): the channels are made, loop waits for its first request.
DbInit ==
  /\ db = [requestCh |-> <<>>, responseClosed |-> FALSE, doneClosed |-> FALSE]
  /\ conn = [tx |-> <<>>, closed |-> 0]
  /\ loop = [pc |-> "receive", action |-> NilAction, err |-> NilErr]
  /\ doers = [g \in Doers |-> NoDo]
  /\ dbCalls = 0
  /\ closeReturned = FALSE

DbFrame ==
  UNCHANGED <<l, seqVars, concVars, sessionVars, requestVars, kdfVars>>

\* The caller's record when its n-th call, Do(action), comes to the select.
Entered(g, n, action) ==
  [pc |-> "select", n |-> n, action |-> action, late |-> closeReturned,
   handled |-> FALSE, ran |-> FALSE, executed |-> NilErr, ret |-> NilErr]

\* d.Do(action) with an action that fails with a testError or succeeds.
Do(g, fails) ==
  /\ doers[g].pc = "idle"
  /\ dbCalls < MaxDbCalls
  /\ dbCalls' = dbCalls + 1
  /\ doers' = [doers EXCEPT ![g] =
                 Entered(g, dbCalls + 1,
                         IF fails THEN testAction(g, dbCalls + 1)
                                  ELSE testActionSucceed(g, dbCalls + 1))]
  /\ UNCHANGED <<db, conn, loop, closeReturned>>
  /\ DbFrame

\* d.Close(): return d.Do(nil)
Close(g) ==
  /\ doers[g].pc = "idle"
  /\ dbCalls < MaxDbCalls
  /\ dbCalls' = dbCalls + 1
  /\ doers' = [doers EXCEPT ![g] =
                 Entered(g, dbCalls + 1,
                         [NilAction EXCEPT !.doer = g, !.n = dbCalls + 1])]
  /\ UNCHANGED <<db, conn, loop, closeReturned>>
  /\ DbFrame

\* The call of caller g returns err.
DoReturns(g, err) ==
  /\ doers' = [doers EXCEPT ![g].pc = "idle", ![g].ret = err]
  /\ closeReturned' = (closeReturned \/ doers[g].action.isNil)

\* case <-d.doneCh can be taken: the channel is closed.
DoneReady(ch) == ch.doneClosed

\* A requestCh with room for one request, whatever loop is doing.
RequestReadyBuffered(ch, lp) == Len(ch.requestCh) = 0

\* case d.requestCh <- action can be taken: the channel has no buffer, so loop
\* is at its receive and no other sender has been taken.
RequestReady(ch, lp) == Len(ch.requestCh) = 0 /\ lp.pc = "receive"

\* select, case <-d.doneCh: return AlreadyClosed
SelectDone(g) ==
  /\ doers[g].pc = "select"
  /\ DoneReady(db)
  /\ DoReturns(g, AlreadyClosed)
  /\ UNCHANGED <<db, conn, loop, dbCalls>>
  /\ DbFrame

\* select, case d.requestCh <- action
SelectRequest(g) ==
  /\ doers[g].pc = "select"
  /\ RequestReady(db, loop)
  /\ db' = [db EXCEPT !.requestCh = <<doers[g].action>>]
  /\ doers' = [doers EXCEPT ![g].pc = "response"]
  /\ UNCHANGED <<conn, loop, dbCalls, closeReturned>>
  /\ DbFrame

\* return <-d.responseCh: the value loop sends, or the zero value of error if
\* the channel is closed.
Response(g) ==
  /\ doers[g].pc = "response"
  /\ IF loop.pc \in {"respond", "respondClose"}
       THEN /\ DoReturns(g, loop.err)
            /\ loop' = [loop EXCEPT !.pc = IF loop.pc = "respond"
                                             THEN "receive"
                                             ELSE "closeResponseCh"]
       ELSE /\ db.responseClosed
            /\ DoReturns(g, NilErr)
            /\ UNCHANGED loop
  /\ UNCHANGED <<db, conn, dbCalls>>
  /\ DbFrame

\* The loop that takes nil for an action like any other.
StopsAtNever(action) == FALSE

\* for ; action != nil; : loop leaves the for statement at a nil action.
StopsAt(action) == action.isNil

\* action := <-d.requestCh and action = <-d.requestCh
loopReceive ==
  /\ loop.pc = "receive"
  /\ Len(db.requestCh) = 1
  /\ db' = [db EXCEPT !.requestCh = <<>>]
  /\ LET action == Head(db.requestCh) IN
     /\ loop' = [pc |-> IF StopsAt(action) THEN "close" ELSE "begin",
                 action |-> action, err |-> NilErr]
     /\ doers' = [doers EXCEPT ![action.doer].handled = TRUE]
  /\ UNCHANGED <<conn, dbCalls, closeReturned>>
  /\ DbFrame

\* A call made on the connWrapper and the error it returned.
ConnCall(name, err) == [call |-> name, err |-> err]

\* execute returns err to loop, which goes on to send it.
executeReturns(err) ==
  [loop EXCEPT !.pc = "respond", !.err = err]

\* err := d.conn.begin(); if err != nil { return err }
begin(failure) ==
  /\ loop.pc = "begin"
  /\ conn' = [conn EXCEPT !.tx =
                <<ConnCall("begin", IF failure THEN beginFailed ELSE NilErr)>>]
  /\ loop' = IF failure THEN executeReturns(beginFailed)
                        ELSE [loop EXCEPT !.pc = "delegate"]
  /\ doers' = [doers EXCEPT ![loop.action.doer].executed =
                              IF failure THEN beginFailed ELSE @]
  /\ UNCHANGED <<db, dbCalls, closeReturned>>
  /\ DbFrame

\* err = action(d.conn.delegate()): the action starts to run ...
delegate ==
  /\ loop.pc = "delegate"
  /\ conn' = [conn EXCEPT !.tx = Append(@, ConnCall("delegate", NilErr))]
  /\ loop' = [loop EXCEPT !.pc = "action"]
  /\ UNCHANGED <<db, doers, dbCalls, closeReturned>>
  /\ DbFrame

\* execute that commits whatever the action returned.
AfterActionCommit(err) == "commit"

\* if err != nil { d.conn.rollback(); return err }
AfterAction(err) == IF err # NilErr THEN "rollback" ELSE "commit"

\* ... and returns.  A nil action has nothing to return.
actionReturns ==
  /\ loop.pc = "action"
  /\ loop' = [loop EXCEPT !.pc = AfterAction(loop.action.err),
                          !.err = loop.action.err]
  /\ doers' = [doers EXCEPT ![loop.action.doer].ran = TRUE,
                            ![loop.action.doer].executed = loop.action.err]
  /\ UNCHANGED <<db, conn, dbCalls, closeReturned>>
  /\ DbFrame

\* err = d.conn.commit(); if err != nil { d.conn.rollback(); return err }
commit(failure) ==
  /\ loop.pc = "commit"
  /\ conn' = [conn EXCEPT !.tx =
                Append(@, ConnCall("commit", IF failure THEN commitFailed
                                                        ELSE NilErr))]
  /\ loop' = IF failure
               THEN [loop EXCEPT !.pc = "rollback", !.err = commitFailed]
               ELSE executeReturns(NilErr)
  /\ doers' = [doers EXCEPT ![loop.action.doer].executed =
                              IF failure THEN commitFailed ELSE NilErr]
  /\ UNCHANGED <<db, dbCalls, closeReturned>>
  /\ DbFrame

\* d.conn.rollback(); return err
rollback ==
  /\ loop.pc = "rollback"
  /\ conn' = [conn EXCEPT !.tx = Append(@, ConnCall("rollback", NilErr))]
  /\ loop' = executeReturns(loop.err)
  /\ UNCHANGED <<db, doers, dbCalls, closeReturned>>
  /\ DbFrame

\* d.conn.Close(), whose result loop goes on to send.
connClose(failure) ==
  /\ loop.pc = "close"
  /\ conn' = [conn EXCEPT !.closed = @ + 1]
  /\ loop' = [loop EXCEPT !.pc = "respondClose",
                          !.err = IF failure THEN closeFailed ELSE NilErr]
  /\ UNCHANGED <<db, doers, dbCalls, closeReturned>>
  /\ DbFrame

\* close(d.responseCh)
closeResponseCh ==
  /\ loop.pc = "closeResponseCh"
  /\ db' = [db EXCEPT !.responseClosed = TRUE]
  /\ loop' = [loop EXCEPT !.pc = "closeDoneCh"]
  /\ UNCHANGED <<conn, doers, dbCalls, closeReturned>>
  /\ DbFrame

\* A loop that ends without closing doneCh.
DoneChLeftOpen(ch) == ch

\* close(d.doneCh)
DoneChClosed(ch) == [ch EXCEPT !.doneClosed = TRUE]

closeDoneCh ==
  /\ loop.pc = "closeDoneCh"
  /\ db' = DoneChClosed(db)
  /\ loop' = [loop EXCEPT !.pc = "done"]
  /\ UNCHANGED <<conn, doers, dbCalls, closeReturned>>
  /\ DbFrame

\* A step of the goroutine of loop.
LoopStep ==
  \/ loopReceive
  \/ \E failure \in BOOLEAN : begin(failure)
  \/ delegate
  \/ actionReturns
  \/ \E failure \in BOOLEAN : commit(failure)
  \/ rollback
  \/ \E failure \in BOOLEAN : connClose(failure)
  \/ closeResponseCh
  \/ closeDoneCh

\* A step of caller g inside Do.
DoStep(g) ==
  \/ SelectDone(g)
  \/ SelectRequest(g)
  \/ Response(g)

DbNext ==
  \/ \E g \in Doers, fails \in BOOLEAN : Do(g, fails)
  \/ \E g \in Doers : Close(g)
  \/ \E g \in Doers : SelectDone(g)
  \/ \E g \in Doers : SelectRequest(g)
  \/ \E g \in Doers : Response(g)
  \/ loopReceive
  \/ \E failure \in BOOLEAN : begin(failure)
  \/ delegate
  \/ actionReturns
  \/ \E failure \in BOOLEAN : commit(failure)
  \/ rollback
  \/ \E failure \in BOOLEAN : connClose(failure)
  \/ closeResponseCh
  \/ closeDoneCh


(***************************************************************************)
(* Specifications.                                                         *)
(***************************************************************************)
\* A Lockout just made, or a nil one, no call made on it yet; no session.
Init ==
  /\ LockoutInit
  /\ ConcInit
  /\ SessionInit
  /\ RequestInit
  /\ KdfInit
  /\ DbInit

\* One caller at a time.
LockoutSpec == Init /\ [][LockoutNext]_vars

\* Several goroutines on one Lockout.
LockoutConcSpec == Init /\ [][ConcNext]_vars

\* A new session, no lock-out.
SessionStart ==
  /\ l = NilLockout
  /\ NoCallsYet
  /\ ConcInit
  /\ SessionInit
  /\ RequestInit
  /\ KdfInit
  /\ DbInit

\* The calls of one request after another on one session.
SessionSpec == SessionStart /\ [][SessionNext]_vars

\* NewUserSession, GetUserSession and context.Clear for one request after
\* another.
UserSessionSpec == SessionStart /\ [][UserSessionNext]_vars

\* Calls of the kdf package, one after another.
KdfSpec == SessionStart /\ [][KdfNext]_vars

\* Calls of VerifyHMAC with byte strings that NewHMAC did not make.
KdfInvalidSpec == SessionStart /\ [][KdfInvalidNext]_vars

\* Calls of KDF, one after another.
KdfKeySpec == SessionStart /\ [][KdfKeyNext]_vars

\* Callers of Do and Close on one Db, and the goroutine of its loop.
DbSpec == SessionStart /\ [][DbNext]_vars

\* The same, with every goroutine that can take a step taking one in the
\* end: the Go scheduler runs every goroutine that is not blocked.
DbFairSpec ==
  /\ SessionStart
  /\ [][DbNext]_vars
  /\ WF_vars(LoopStep)
  /\ \A g \in Doers : WF_vars(DoStep(g))

(***************************************************************************)
(* Properties of the lockout.                                              *)
(***************************************************************************)
\* What l.Locked(userName) returns when called on lock-out lk.
IsLocked(lk, userName) ==
  IF lk.isNil THEN FALSE ELSE LockedRet(lk, userName)

\* C1: once Locked(userName) returns true it returns true after every later
\* call, for this account or another; Success on a locked account changes
\* nothing.
C1_LockedIsAbsorbing ==
  [][ /\ \A u \in Users : IsLocked(l, u) => IsLocked(l', u)
      /\ (lastCall'.op = "Success" /\ IsLocked(l, lastCall'.userName)) => l' = l
    ]_vars

\* A Success call has just returned on an account that is locked.
C1_Witness ==
  /\ lastCall.op = "Success"
  /\ IsLocked(l, lastCall.userName)
  /\ \E u \in Users : ~IsLocked(l, u) /\ run[u] > 0

\* C2: Failure(userName) returns true exactly on the call that takes the
\* account from Open to Locked, false on the calls before and after, and so
\* at most once per account.
C2_FailureTrueOnceOnLocking ==
  /\ [](\A u \in Users : notices[u] <= 1)
  /\ [][ \A u \in Users :
           (~l.isNil /\ Get(l'.counts, u) = Get(l.counts, u) + 1) =>
             /\ lastCall'.op = "Failure"
             /\ lastCall'.userName = u
             /\ lastCall'.ret = (~IsLocked(l, u) /\ IsLocked(l', u))
       ]_vars

\* A Failure call on an account locked earlier has just returned false.
C2_Witness ==
  /\ lastCall = [op |-> "Failure", userName |-> "alice", ret |-> FALSE]
  /\ notices["alice"] = 1
  /\ l.failures >= 2
  /\ Get(l.counts, "alice") > l.failures

\* C3: Success on an account that is not locked leaves its count at zero,
\* and an account that is not locked becomes locked exactly when the
\* Failure calls since its last Success call reach the threshold.
C3_SuccessResetsCount ==
  /\ [](\A u \in Users :
          (lastCall.op = "Success" /\ lastCall.userName = u /\ ~IsLocked(l, u))
            => (~l.isNil => Get(l.counts, u) = 0))
  /\ [][ \A u \in Users :
           (~l.isNil /\ ~IsLocked(l, u)) =>
             (IsLocked(l', u) <=> run'[u] >= l.failures)
       ]_vars

\* An account was forgiven some failures and later locked by a fresh run of
\* threshold-many failures.
C3_Witness ==
  \E u \in Users :
    /\ forgiven[u]
    /\ IsLocked(l, u)
    /\ l.failures >= 2
    /\ run[u] = l.failures
    /\ lastCall = [op |-> "Failure", userName |-> u, ret |-> TRUE]

\* C4: on a nil *Lockout no call panics, Failure and Locked return false and
\* Success does nothing.
C4_NilNeverLocks ==
  l.isNil =>
    /\ ~panicked
    /\ l = NilLockout
    /\ lastCall.ret = FALSE
    /\ \A u \in Users : ~IsLocked(l, u)

\* Failure has just been called on a nil *Lockout.
C4_Witness ==
  /\ l.isNil
  /\ lastCall.op = "Failure"

\* No goroutine is inside a call.
Quiescent == \A g \in Goroutines : pc[g] = "idle"

\* C5: calls from several goroutines behave as the same calls made one at a
\* time in the order they took the mutex: each returns what it returns in
\* that order and the counts agree; Failure calls on an account with no
\* Success lose no increment, and exactly one of them returns true once
\* there are threshold-many.
C5_Linearizable ==
  /\ \A g \in Goroutines : pc[g] = "return" => ret[g] = absRet[g]
  /\ (~l.isNil /\ mutex = NoHolder) => l.counts = abs
  /\ (~l.isNil /\ Quiescent) =>
       \A u \in Users :
         ~hist[u].success =>
           /\ Get(l.counts, u) = hist[u].failures
           /\ hist[u].trues = IF hist[u].failures >= l.failures THEN 1 ELSE 0

\* Three goroutines are inside Failure on one account at once: one holds the
\* mutex between the map read and the map write, two wait for it.
C5_WitnessContended ==
  \E g \in Goroutines :
    /\ pc[g] = "Failure53write"
    /\ \A h \in Goroutines \ {g} :
         /\ pc[h] = "lock"
         /\ call[h] = call[g]

\* All calls have returned: four Failure calls on one account, threshold 3.
C5_Witness ==
  /\ Quiescent
  /\ ~l.isNil
  /\ l.failures = 3
  /\ \E u \in Users :
       /\ hist[u] = [failures |-> 4, trues |-> 1, success |-> FALSE]
       /\ Get(l.counts, u) = 4

(***************************************************************************)
(* Properties of the XSRF tokens.                                          *)
(***************************************************************************)
\* The last call was VerifyXsrfToken(r.token, action, now), returning result.
Verified(r, action, now, result) ==
  sCall = [op |-> "VerifyXsrfToken", token |-> r.token, action |-> action,
           now |-> now, ret |-> result]

\* C6: a token issued before a ClearUserId, a ClearAll or a SetUserId never
\* verifies on the session again, for any action at any time, whatever calls
\* follow.
C6_RotationInvalidatesTokens ==
  \A r \in stale : \A action \in Actions, now \in Times :
    ~VerifyXsrfTokenRet(values, r.token, action, now)

\* The user id of a token issued earlier is set again, and the token has just
\* failed to verify for its own action before its expiry.
C6_Witness ==
  \E r \in stale, now \in Times :
    /\ UserId(values) = [ok |-> TRUE, id |-> r.userId]
    /\ xsrfSecret(values).ok
    /\ Unix(now) < Unix(r.expire)
    /\ Verified(r, r.action, now, FALSE)

\* C7 as stated: a token verifies for its action at every now strictly
\* before the expire instant given to NewXsrfToken, while the identity and
\* the secret stay as they were.
C7_VerifiesBeforeExpireInstant ==
  \A r \in issued : \A now \in Times :
    Before(now, r.expire) =>
      VerifyXsrfTokenRet(values, r.token, r.action, now)

\* C7 as amended: a token verifies for its action at every now whose Unix
\* second is before the Unix second of expire (the expiry the token
\* carries), while the identity and the secret stay as they were.
C7_VerifiesBeforeExpireSecond ==
  \A r \in issued : \A now \in Times :
    Unix(now) < Unix(r.expire) =>
      VerifyXsrfTokenRet(values, r.token, r.action, now)

\* A token has just verified for its action in the second before its expiry.
C7_Witness ==
  \E r \in issued, now \in Times :
    /\ Unix(now) + 1 = Unix(r.expire)
    /\ Verified(r, r.action, now, TRUE)

\* C8: a token does not verify at or after the expiry it carries, though
\* checksum, action, identity and secret all match.
C8_ExpiryIsExclusive ==
  \A r \in issued : \A now \in Times :
    ~Before(now, [sec |-> Unix(r.expire), nsec |-> 0]) =>
      ~VerifyXsrfTokenRet(values, r.token, r.action, now)

\* A token has just failed to verify, for its action and on an unchanged
\* session, at the very second it expires.
C8_Witness ==
  \E r \in issued, now \in Times :
    /\ now = [sec |-> Unix(r.expire), nsec |-> 0]
    /\ Verified(r, r.action, now, FALSE)

\* C9: a token issued for one action does not verify for another, at any
\* time, on the unchanged session.
C9_BoundToAction ==
  \A r \in issued : \A action \in Actions \ {r.action}, now \in Times :
    ~VerifyXsrfTokenRet(values, r.token, action, now)

\* A token has just failed to verify for another action before its expiry.
C9_Witness ==
  \E r \in issued, action \in Actions, now \in Times :
    /\ action # r.action
    /\ Unix(now) < Unix(r.expire)
    /\ Verified(r, action, now, FALSE)

\* The expiry seconds tried in place of a token's own.
OtherExpiries(r) == ((MinSec - 1)..(MaxSec + 2)) \ {Unix(r.expire)}

\* C10: a token with its expiry replaced by a different one, the checksum
\* kept, does not verify for any action at any time.
C10_BoundToExpiry ==
  \A r \in issued : \A e \in OtherExpiries(r) :
    \A action \in Actions, now \in Times :
      ~VerifyXsrfTokenRet(values, Tamper(r, e), action, now)

\* A token with one second added to its expiry has just failed to verify for
\* its action at an instant at which the token itself verifies.
C10_Witness ==
  \E r \in issued, now \in Times :
    /\ VerifyXsrfTokenRet(values, r.token, r.action, now)
    /\ sCall = [op |-> "VerifyXsrfToken",
                token |-> Tamper(r, Unix(r.expire) + 1),
                action |-> r.action, now |-> now, ret |-> FALSE]

(***************************************************************************)
(* Faults of the XSRF calls.                                               *)
(***************************************************************************)
\* The token is bad for session m: it is empty, has no delimiter,
\* has an expiry that is no 64-bit integer or a checksum other than the one
\* of its expiry, or m has no user id or no secret.
BadInput(m, token, action) ==
  LET idx == IndexByte(token, ":")
      parsed == ParseInt(SubSeq(token, 1, idx)) IN
  \/ token = <<>>
  \/ idx = -1
  \/ parsed.err
  \/ ~UserId(m).ok
  \/ ~xsrfSecret(m).ok
  \/ SubSeq(token, idx + 2, Len(token))
       # Checksum(xsrfSecret(m).secret, parsed.value, UserId(m).id, action)

\* C11: VerifyXsrfToken never panics, and it returns false for the empty
\* token, a token without ":", a token whose expiry is not a 64-bit decimal
\* integer, a token with a wrong checksum, a session without a user id and a
\* session without a secret (for the last: the token held, on the session as
\* it would be with its secret taken away).
C11_VerifyNeverFaults ==
  /\ sPanic # kSliceBounds
  /\ sCall.op = "VerifyXsrfToken" /\ BadInput(values, sCall.token, sCall.action)
       => sCall.ret = FALSE
  /\ \A r \in issued, now \in Times :
       LET m == clearXsrfSecret(values) IN
       /\ VerifyXsrfTokenPanic(m, r.token, r.action, now) = NoPanic
       /\ ~VerifyXsrfTokenRet(m, r.token, r.action, now)

\* A session with a user id and a secret has just been given a token without
\* a delimiter, and VerifyXsrfToken returned false.
C11_Witness ==
  /\ sPanic = NoPanic
  /\ UserId(values).ok
  /\ xsrfSecret(values).ok
  /\ sCall.op = "VerifyXsrfToken"
  /\ IndexByte(sCall.token, ":") = -1
  /\ sCall.token # <<>>
  /\ sCall.ret = FALSE

\* C12: NewXsrfToken panics on a session without a user id or without a
\* secret, handing out no token; on any other session it returns the token
\* and leaves the session's values as they were.
C12_NewXsrfTokenPanicsUnauthenticated ==
  [][\A action \in Actions, expire \in Expiries :
       (sPanic' # sPanic \/ sCall'.op = "NewXsrfToken")
         /\ NewXsrfToken(action, expire) =>
         IF UserId(values).ok /\ xsrfSecret(values).ok
           THEN /\ sPanic' = NoPanic
                /\ values' = values
                /\ TokensOf(issued') = {NewXsrfTokenRet(values, action, expire)}
           ELSE /\ sPanic' \in {"No userId.", "No secret."}
                /\ issued' = issued
                /\ values' = values]_vars

\* NewXsrfToken has panicked on a session that had a user id before and has
\* none now.
C12_Witness ==
  /\ sPanic = "No userId."
  /\ ~UserId(values).ok
  /\ stale # {}
  /\ issued = {}

(***************************************************************************)
(* Properties of the session's accessors.                                  *)
(***************************************************************************)
\* C13: ClearAll leaves the session's value map without any key, the keys
\* of others included; UserId and LastLogin then report absent and there is
\* no XSRF secret.
C13_ClearAllRemovesEveryKey ==
  sCall.op = "ClearAll" =>
    /\ DOMAIN values = {}
    /\ ~UserId(values).ok
    /\ ~LastLogin(values).ok
    /\ ~xsrfSecret(values).ok

\* ClearAll has just run on a session that had a user id, a secret, a last
\* login and a key of somebody else.
C13_Witness ==
  /\ sCall.op = "ClearAll"
  /\ sCall.had = {kUserIdKey, kXsrfSecretKey, kLastLoginKey} \cup ForeignKeys
  /\ DOMAIN values = {}

\* C14: SetUserId(id) makes UserId report id, ClearUserId and ClearAll make
\* it report absent, and no other call changes what it reports; SetUserId
\* and ClearUserId leave LastLogin as it was; SetLastLogin and ClearLastLogin
\* leave the user id and the secret as they were, and every token held
\* verifies after them exactly when it did before.
C14_AccessorsIndependent ==
  [][/\ \A id \in UserIds : SetUserId(id) =>
          /\ UserId(values') = [ok |-> TRUE, id |-> id]
          /\ LastLogin(values') = LastLogin(values)
     /\ ClearUserId =>
          /\ ~UserId(values').ok
          /\ LastLogin(values') = LastLogin(values)
     /\ ClearAll => ~UserId(values').ok
     /\ (\/ \E lastLogin \in LastLogins : SetLastLogin(lastLogin)
         \/ ClearLastLogin) =>
          /\ UserId(values') = UserId(values)
          /\ xsrfSecret(values') = xsrfSecret(values)
          /\ issued' = issued
          /\ \A r \in issued, now \in Times :
               VerifyXsrfTokenRet(values', r.token, r.action, now)
                 = VerifyXsrfTokenRet(values, r.token, r.action, now)
     /\ (/\ ~(\E id \in UserIds : SetUserId(id))
         /\ ~ClearUserId
         /\ ~ClearAll) => UserId(values') = UserId(values)]_vars

\* A session with a last login has lost its user id to ClearUserId and kept
\* the last login.
C14_Witness ==
  /\ sCall.op = "ClearUserId"
  /\ ~UserId(values).ok
  /\ LastLogin(values).ok
  /\ stale # {}

(***************************************************************************)
(* Properties of NewUserSession and GetUserSession.                        *)
(***************************************************************************)
\* The last call for the request was a NewUserSession that got a session
\* from the store.
GotSession == rCall.op = "NewUserSession" /\ rCall.storeErr = NilError

\* The session that call got carries a user id.
CarriesUserId == rCall.cookie = "123456" /\ UserId(rCall.stored).ok

\* The error the user store of that call has for the session's user id.
LookupErr == GetUser(rCall.userGetter, UserId(rCall.stored).id).err

\* The session published for the request, NilSession if there is none.
Published == ContextGet(context, kSessionContextKey)

\* C15: when the session carries a user id and GetUser returns noSuchId,
\* NewUserSession returns the session and a nil error, does not call SetUser
\* (no business object) and publishes the session for the request.
C15_NoSuchIdIsNotAnError ==
  GotSession /\ CarriesUserId /\ LookupErr = errNoSuchId =>
    /\ us.err = NilError
    /\ us.session # NilSession
    /\ us.session.User = NilUser
    /\ rCall.getUser = 1
    /\ rCall.setUser = 0
    /\ Published = us.session

\* NewUserSession has just run on a session with user id 25 and a user store
\* that knows user 26 only.
C15_Witness ==
  /\ GotSession
  /\ UserId(rCall.stored) = [ok |-> TRUE, id |-> 25]
  /\ rCall.cookie = "123456"
  /\ rCall.userGetter = store(26)
  /\ us.err = NilError
  /\ Published = us.session

\* C16 as stated: when the stored user id has no user record, UserId() on
\* the session NewUserSession returns reports not present.
C16_NoSuchIdClearsIdentity ==
  GotSession /\ CarriesUserId /\ LookupErr = errNoSuchId =>
    /\ us.session # NilSession
    /\ ~UserId(us.session.Values).ok

\* C16 as amended: when the stored user id has no user record, the session
\* NewUserSession returns has no business object, and UserId() on it still
\* reports the stored user id.
C16_NoSuchIdKeepsUserId ==
  GotSession /\ CarriesUserId /\ LookupErr = errNoSuchId =>
    /\ us.session # NilSession
    /\ us.session.User = NilUser
    /\ UserId(us.session.Values) = UserId(rCall.stored)
    /\ UserId(us.session.Values).ok

\* NewUserSession has returned a session without a business object whose
\* UserId() reports 26, the user store knowing user 25 only.
C16_Witness ==
  /\ GotSession
  /\ rCall.userGetter = store(25)
  /\ us.session # NilSession
  /\ us.session.User = NilUser
  /\ UserId(us.session.Values) = [ok |-> TRUE, id |-> 26]

\* C17: when GetUser fails with an error other than noSuchId, NewUserSession
\* returns that error and a nil session.
C17_OtherErrorsPropagate ==
  GotSession /\ CarriesUserId /\ LookupErr \notin {NilError, errNoSuchId} =>
    /\ us.err = LookupErr
    /\ us.session = NilSession
    /\ rCall.setUser = 0

\* NewUserSession has just returned errDb and no session, for a session with
\* a user id.
C17_Witness ==
  /\ GotSession
  /\ CarriesUserId
  /\ rCall.userGetter = errorStore
  /\ us = [session |-> NilSession, err |-> errDb]

\* C18: NewUserSession publishes the session it returns when it returns a nil
\* error, and leaves the context alone when it returns an error;
\* GetUserSession returns the published session and leaves it published; no
\* call other than NewUserSession and context.Clear changes what is
\* published.
C18_GetReturnsPublishedSession ==
  [][/\ \A cookie \in Cookies, userGetter \in UserGetters,
          storeErr \in StoreErrors :
          NewUserSession(cookie, userGetter, storeErr) =>
            IF us'.err = NilError
              THEN /\ us'.session # NilSession
                   /\ ContextGet(context', kSessionContextKey) = us'.session
              ELSE /\ us'.session = NilSession
                   /\ context' = context
     /\ GetUserSession /\ Published # NilSession =>
          /\ rPanic' = NoPanic
          /\ rCall'.ret = Published
          /\ context' = context
     /\ (/\ ~Clear
         /\ ~\E cookie \in Cookies, userGetter \in UserGetters,
               storeErr \in StoreErrors :
               NewUserSession(cookie, userGetter, storeErr))
          => context' = context]_vars

\* GetUserSession has just returned the second session object made, which is
\* the one the last NewUserSession returned.
C18_Witness ==
  /\ rCall.op = "GetUserSession"
  /\ rCall.ret = us.session
  /\ us.err = NilError
  /\ us.session.obj = 2

\* C19: when the session carries no user id, NewUserSession does not call
\* GetUser and returns the session, without a business object, and a nil
\* error, whatever the user store.
C19_NoUserIdNoLookup ==
  GotSession /\ ~CarriesUserId =>
    /\ rCall.getUser = 0
    /\ us.err = NilError
    /\ us.session # NilSession
    /\ us.session.User = NilUser

\* NewUserSession has just returned a session for a request whose cookie the
\* session store does not know, the user store being one that always fails.
C19_Witness ==
  /\ GotSession
  /\ ~CarriesUserId
  /\ rCall.userGetter = errorStore
  /\ us.err = NilError
  /\ us.session # NilSession

(***************************************************************************)
(* Properties of the salted hashes.                                        *)
(***************************************************************************)
\* What VerifyHMAC(plain, r.mac, r.reps) returns now, r being a hash made.
Verifies(r, plain) == VerifyHMACRet(oracle, plain, r.mac, r.reps).ret

\* C20 as stated: a hash made by NewHMAC(p, reps) verifies, with the same
\* reps, against p and against no other plaintext.
C20_VerifiesOwnPlaintextOnly ==
  \A r \in macs : \A plain \in Plains :
    Verifies(r, plain) <=> plain = r.plain

\* C20 as amended: a hash made by NewHMAC(p, reps) verifies, with the same
\* reps, against p, and does not verify against a plaintext that is another
\* HMAC key than p (one that differs from p in more than zero bytes at the
\* end).
C20_VerifiesOwnHmacKeyOnly ==
  \A r \in macs : \A plain \in Plains :
    /\ plain = r.plain => Verifies(r, plain)
    /\ HmacKey(plain) # HmacKey(r.plain) => ~Verifies(r, plain)

\* A hash made with two repetitions has just verified against its plaintext,
\* and it does not verify against another one.
C20_Witness ==
  /\ kCall.op = "VerifyHMAC"
  /\ kCall.reps = 2
  /\ kCall.ret = TRUE
  /\ \E r \in macs :
       /\ r.plain = kCall.plain
       /\ r.reps = kCall.reps
       /\ r.mac = kCall.mac
       /\ \E plain \in Plains : ~Verifies(r, plain)

\* C21 as stated: VerifyHMAC returns false, and does not panic, for a record
\* that is empty, shorter than the salt, or not 40 bytes long, and for one of
\* 40 zero bytes, whatever the candidate.
C21_InvalidRecordReturnsFalse ==
  kCall.op = "VerifyHMAC" /\ kCall.mac \in BadMacs =>
    /\ kCall.panic = NoPanic
    /\ kCall.ret = FALSE

\* A record of the salt's length or longer that is not a hash never
\* verifies; this part of C21 holds.
C21_LongEnoughRecordReturnsFalse ==
  kCall.op = "VerifyHMAC" /\ kCall.mac \in BadMacs
    /\ Len(kCall.mac) >= kSaltLen =>
      /\ kCall.panic = NoPanic
      /\ kCall.ret = FALSE

\* C22: two calls of NewHMAC with the same plaintext return different byte
\* strings (their salts differ), and each of the two verifies against the
\* plaintext.
C22_SaltFreshness ==
  \A r1 \in macs, r2 \in macs :
    r1.call # r2.call /\ r1.plain = r2.plain =>
      /\ r1.mac # r2.mac
      /\ MacSalt(r1.mac) # MacSalt(r2.mac)
      /\ Verifies(r1, r1.plain)
      /\ Verifies(r2, r2.plain)

\* Two hashes were made of one plaintext with the same repetitions, and the
\* second has just verified against the plaintext.
C22_Witness ==
  \E r1 \in macs, r2 \in macs :
    /\ r1.call = 1
    /\ r2.call = 2
    /\ r1.plain = r2.plain
    /\ r1.reps = r2.reps
    /\ r1.mac # r2.mac
    /\ kCall.op = "VerifyHMAC"
    /\ kCall.mac = r2.mac
    /\ kCall.plain = r2.plain
    /\ kCall.reps = r2.reps
    /\ kCall.ret = TRUE

\* The key the package of call k derives from k's plain and salt with reps
\* repetitions, in the current state.
KeyNow(k, reps) ==
  IF k.kdf = "pbkdf2" THEN KDF(oracle, k.plain, k.salt, reps).key
  ELSE KDFIterated(oracle, k.plain, k.salt, reps).key

\* KDF returned 32 bytes to call k, returns the same key for the same
\* arguments again, and took 0 repetitions as 1.
KeyAsSpecified(k) ==
  /\ Len(k.key) = Sha256Size
  /\ KeyNow(k, k.reps) = k.key
  /\ \A k2 \in keys :
       k2.kdf = k.kdf /\ k2.plain = k.plain /\ k2.salt = k.salt
         /\ k2.reps = k.reps => k2.key = k.key
  /\ k.reps = 0 => k.key = KeyNow(k, 1)

\* C23 as stated: KDF is deterministic and returns 32 bytes for every plain,
\* every salt and every repetition count, 0 repetitions counting as 1, in
\* both kdf packages.
C23_KdfDeterministic32Bytes == \A k \in keys : KeyAsSpecified(k)

\* The KDF that uses pbkdf2 does all that C23 says.
C23_Pbkdf2Deterministic32Bytes ==
  \A k \in keys : k.kdf = "pbkdf2" => KeyAsSpecified(k)

\* The KDF that iterates HMAC itself does so for one repetition or more.
C23_HmacDeterministic32Bytes ==
  \A k \in keys : k.kdf = "hmac" /\ k.reps >= 1 => KeyAsSpecified(k)

\* A character of base32.StdEncoding's alphabet.
IsBase32Char(c) == \E i \in 1..Len(encodeStd) : encodeStd[i] = c

\* The characters of 32 bytes in base32 without padding.
ChecksumLen == (8 * Sha256Size + 4) \div 5

\* The lengths the specification gives for the checksum.
SpecChecksumLens == {32, 43}

\* The field of token before its first ":" and the field after it.
ExpiryField(token) == SubSeq(token, 1, IndexByte(token, ":"))

ChecksumField(token) ==
  SubSeq(token, IndexByte(token, ":") + 2, Len(token))

\* The checksum of token is made of base32 characters only.
Base32Checksum(token) ==
  \A i \in 1..Len(ChecksumField(token)) :
    IsBase32Char(ChecksumField(token)[i])

\* token is digits, ":", base32 characters of one of the lengths lens.
WireForm(token, lens) ==
  /\ IndexByte(token, ":") >= 1
  /\ \A i \in 1..Len(ExpiryField(token)) : IsDigit(ExpiryField(token)[i])
  /\ Base32Checksum(token)
  /\ Len(ChecksumField(token)) \in lens

\* The token the last call of VerifyXsrfToken accepted, if it accepted one.
Accepted(token) ==
  /\ sCall.op = "VerifyXsrfToken"
  /\ sCall.ret = TRUE
  /\ sCall.token = token

C29_UserIdIffSecret ==
  /\ UserId(values).ok <=> xsrfSecret(values).ok
  /\ NewXsrfTokenPanic(values) # "No secret."
  /\ sPanic # "No secret."

\* NewXsrfToken has just returned a token on a session whose user id has
\* been set a second time.
C29_Witness ==
  /\ sCall.op = "NewXsrfToken"
  /\ sPanic = NoPanic
  /\ issued # {}
  /\ UserId(values).ok
  /\ xsrfSecret(values).ok
  /\ xsrfSecret(values).secret = Random(1)

\* What l.Failure(userName) would return when called on lock-out lk.
FailureWouldReturn(lk, userName) ==
  IF lk.isNil THEN FALSE ELSE FailureRet(lk, userName)

\* The failures lock-out lk counts for userName.
CountOf(lk, userName) ==
  IF lk.isNil THEN 0 ELSE Get(lk.counts, userName)

\* C25: a call of Failure or Success for one account changes, for no other
\* account, what Locked returns, what the next Failure returns, or the
\* count of failures that every later Failure goes by.
C25_AccountsIndependent ==
  [][\A b \in Users \ {lastCall'.userName} :
       /\ IsLocked(l', b) = IsLocked(l, b)
       /\ FailureWouldReturn(l', b) = FailureWouldReturn(l, b)
       /\ CountOf(l', b) = CountOf(l, b)]_vars

\* One account is locked, and another has just locked on its own count of
\* failures, by a call of Failure that returned true.
C25_Witness ==
  \E a \in Users, b \in Users :
    /\ a # b
    /\ ~l.isNil
    /\ l.failures >= 2
    /\ Get(l.counts, a) > l.failures
    /\ Get(l.counts, b) = l.failures
    /\ lastCall = [op |-> "Failure", userName |-> b, ret |-> TRUE]

(***************************************************************************)
(* Properties of sqlite_db.Db.                                             *)
(***************************************************************************)
\* The last call of caller g has returned.
HasReturned(g) == doers[g].n > 0 /\ doers[g].pc = "idle"

\* The last call of caller g was Do with an action, or Close.
IsDo(g) == doers[g].n > 0 /\ ~doers[g].action.isNil

IsClose(g) == doers[g].n > 0 /\ doers[g].action.isNil

\* C26: a call of Do that started after a call of Close had returned is
\* never taken up by loop, its action never runs, and it returns
\* AlreadyClosed; and every call of Do that has returned either was taken up,
\* in which case it returns what execute returned for its action (the
\* action's own result unless begin or commit failed), or was not taken up,
\* its action did not run, and it returns AlreadyClosed.
C26_ClosedDbRunsNothing ==
  \A g \in Doers :
    /\ IsDo(g) /\ doers[g].late =>
         /\ ~doers[g].handled
         /\ ~doers[g].ran
         /\ HasReturned(g) => doers[g].ret = AlreadyClosed
    /\ IsDo(g) /\ HasReturned(g) =>
         \/ /\ doers[g].handled
            /\ doers[g].ret = doers[g].executed
            /\ doers[g].ret \notin {beginFailed, commitFailed} =>
                 doers[g].ran /\ doers[g].ret = doers[g].action.err
         \/ /\ ~doers[g].handled
            /\ ~doers[g].ran
            /\ doers[g].ret = AlreadyClosed

\* Close has returned nil to one caller; a call of Do that was waiting in
\* its select meanwhile and one that started afterwards have both returned
\* AlreadyClosed.
C26_Witness ==
  \E g1 \in Doers, g2 \in Doers, g3 \in Doers :
    /\ IsClose(g1) /\ HasReturned(g1) /\ doers[g1].ret = NilErr
    /\ IsDo(g2) /\ HasReturned(g2) /\ ~doers[g2].late
    /\ doers[g2].n < doers[g3].n
    /\ doers[g2].ret = AlreadyClosed
    /\ IsDo(g3) /\ HasReturned(g3) /\ doers[g3].late
    /\ doers[g3].ret = AlreadyClosed

\* The callers whose request loop has and whose response it has yet to send.
Served == {g \in Doers : doers[g].pc = "response"}

\* C27: at most one caller at a time is between its request and its
\* response, so that the action loop runs is that caller's and no two
\* actions run at once; and a call of Do that loop took up returns what
\* execute returned for its own action, a testError being its own.
C27_OneActionAtATime ==
  /\ Cardinality(Served) <= 1
  /\ loop.pc \in {"begin", "delegate", "action", "commit", "rollback",
                  "respond"} => Served = {loop.action.doer}
  /\ \A g \in Doers :
       IsDo(g) /\ HasReturned(g) =>
         /\ doers[g].handled => doers[g].ret = doers[g].executed
         /\ doers[g].ret.kind = "testError" =>
              doers[g].ret = doers[g].action.err

\* While the action of one caller runs, another caller waits in its select
\* with an action of its own, and a third has returned from Do with the
\* testError of its own action.
C27_Witness ==
  \E g1 \in Doers, g2 \in Doers, g3 \in Doers :
    /\ loop.pc = "action" /\ loop.action.doer = g1
    /\ doers[g1].pc = "response"
    /\ IsDo(g2) /\ doers[g2].pc = "select"
    /\ doers[g2].action.err = testError(doers[g2].n)
    /\ IsDo(g3) /\ HasReturned(g3)
    /\ doers[g3].ret = testError(doers[g3].n)

\* The names of the calls made on the connWrapper since the last begin.
TxCalls == [i \in 1..Len(conn.tx) |-> conn.tx[i].call]

\* execute has returned and loop is about to send the result.
Executed == loop.pc = "respond"

\* C28: when execute returns, begin was called first; if begin failed nothing
\* else was called, the action did not run and the begin error is returned;
\* if the action returned an error, rollback was called, commit was not, and
\* the action's error is returned; if the action succeeded commit was
\* called, with no rollback and nil returned if it succeeded, and with
\* rollback after it and the commit error returned if it failed.  Do returns
\* to its caller what execute returned.
C28_ActionIsTransaction ==
  /\ Executed =>
       LET who == loop.action.doer
           action == loop.action IN
       /\ Len(conn.tx) >= 1
       /\ conn.tx[1].call = "begin"
       /\ doers[who].executed = loop.err
       /\ IF conn.tx[1].err # NilErr
            THEN /\ TxCalls = <<"begin">>
                 /\ ~doers[who].ran
                 /\ loop.err = conn.tx[1].err
          ELSE IF action.err # NilErr
            THEN /\ TxCalls = <<"begin", "delegate", "rollback">>
                 /\ doers[who].ran
                 /\ loop.err = action.err
          ELSE /\ Len(conn.tx) >= 3
               /\ doers[who].ran
               /\ IF conn.tx[3].err = NilErr
                    THEN /\ TxCalls = <<"begin", "delegate", "commit">>
                         /\ loop.err = NilErr
                    ELSE /\ TxCalls =
                              <<"begin", "delegate", "commit", "rollback">>
                         /\ loop.err = conn.tx[3].err
  /\ \A g \in Doers :
       IsDo(g) /\ HasReturned(g) /\ doers[g].handled =>
         doers[g].ret = doers[g].executed

\* Do has returned the commit error for an action that succeeded, after
\* begin, the action, commit and rollback in that order.
C28_Witness ==
  \E g \in Doers :
    /\ IsDo(g) /\ HasReturned(g)
    /\ doers[g].action.err = NilErr
    /\ doers[g].ran
    /\ doers[g].ret = commitFailed
    /\ loop.action.doer = g
    /\ TxCalls = <<"begin", "delegate", "commit", "rollback">>

\* The calls of Close that did not return AlreadyClosed.
Closers ==
  {g \in Doers : IsClose(g) /\ HasReturned(g) /\ doers[g].ret # AlreadyClosed}

\* The connection is closed once at most, for the one call of Close that
\* gets its result.
ClosedOnce ==
  /\ conn.closed <= 1
  /\ Cardinality(Closers) <= 1
  /\ \A g \in Doers : IsClose(g) /\ HasReturned(g) => conn.closed = 1

\* C30: every call of Do and of Close returns in the end, whatever the
\* callers and loop do in between, and of several calls of Close one closes
\* the connection and the others return AlreadyClosed.
C30_EveryCallReturns ==
  /\ \A g \in Doers : (doers[g].pc # "idle") ~> HasReturned(g)
  /\ []ClosedOnce

\* Two calls of Close that were in their select together have returned, one
\* with the result of closing the connection and one with AlreadyClosed, and
\* so has a call of Do.
C30_Witness ==
  \E g1 \in Doers, g2 \in Doers, g3 \in Doers :
    /\ IsClose(g1) /\ HasReturned(g1) /\ doers[g1].ret = NilErr
    /\ IsClose(g2) /\ HasReturned(g2) /\ doers[g2].ret = AlreadyClosed
    /\ ~doers[g1].late /\ ~doers[g2].late
    /\ IsDo(g3) /\ HasReturned(g3)
    /\ conn.closed = 1

====
